---- MODULE Spec2Model ----
(***************************************************************************)
(* A model of gh-stars-watcher: the retry executor (monitor/retry.go), the *)
(* JSON state storage (storage/json.go), the change classifier and the     *)
(* monitoring cycle (monitor/service.go) and the multi-user command        *)
(* (cli/validation.go).  Each part has a specification of its own; the     *)
(* variables of the other parts stay at their initial values.              *)
(*                                                                         *)
(* Time is counted in minutes for star timestamps and in seconds for       *)
(* retry delays.                                                           *)
(***************************************************************************)
EXTENDS Integers, Sequences, FiniteSets, TLC

VARIABLES
    \* ---- retry executor (RetryManager.ExecuteWithRetry) ----
    retryCfg,        \* config.RetryConfig of this run
    retryPc,         \* position inside ExecuteWithRetry
    attempt,         \* the loop counter
    lastErr,         \* lastErr
    opCalls,         \* number of times operation() was invoked
    delay,           \* the delay of the wait in progress (seconds)
    ctxDone,         \* ctx.Err() != nil
    retryResult,     \* what ExecuteWithRetry returned
    opErrs,          \* the error kinds operation() returned so far
    cancelAt,        \* opCalls when the context was cancelled during a wait, else -1
    \* ---- change classifier (Service.findRepositoryChanges) ----
    diffCfg,         \* config.IncrementalConfig: DetectReStars, DetectUnstars
    dPrevious,       \* the previous argument
    dCurrent,        \* the current argument
    dChanges,        \* the *RepositoryChanges returned, or NoChanges before the call
    dPc,             \* "input" before the call, "done" after it
    \* ---- state storage (JSONStorage) ----
    clock,           \* time.Now(), in minutes
    files,           \* the file system: path -> [exists, data]
    savePc,          \* position inside SaveUserState
    saveArg,         \* the state argument of the SaveUserState in progress
    saveRet,         \* what the last SaveUserState returned
    savesLeft,       \* SaveUserState calls still to come in this run
    atStart,         \* what LoadUserState returned when the save in progress began
    loadRet,         \* what the last LoadUserState returned
    \* ---- monitoring cycle (Service.MonitorUser) ----
    svcCfg,          \* config.IncrementalConfig of the service
    stars,           \* the user's starred repositories on GitHub
    cyclePc,         \* position inside MonitorUser
    runsLeft,        \* runs of the command still to come
    envLeft,         \* clock and GitHub-side steps still to come
    previousState,   \* previousState
    allRepos,        \* allRepos while fetching, currentRepos after it
    cursor,          \* opts.Cursor, as a page number
    mostRecentStarredAt, \* mostRecentStarredAt of the incremental fetch
    pagesProcessed,  \* pagesProcessed
    apiCallsSaved,   \* apiCallsSaved
    isFullSync,      \* isFullSync
    monitorRet,      \* what MonitorUser returned
    filesAtStart,    \* the file system when the cycle began
    starsMoved,      \* the starred set changed since the cycle began
    validateErr,     \* what ValidateUser returned in this cycle
    touched,         \* the storage calls this cycle made
    fetchesTried,    \* the fetches this cycle began: "incremental", "full"
    quietSinceFull,  \* the run before was a successful full sync and the
                     \* starred set has not changed since it began
    \* ---- monitor command (runMonitor, runMultiUserMonitor) ----
    rawUsernames,    \* strings.Split(args[0], ",")
    stateFile,       \* the --state-file flag
    hasToken,        \* tokenManager.GetToken returns a token
    usernames,       \* what parseUsernames returned
    mainPc,          \* position inside runMonitor
    goPc,            \* per cycle: position inside the goroutine and MonitorUser
    githubClient,    \* Service.githubClient of the shared service: 0 is the
                     \* client it was created with, k the one cycle k created
    clientWriters,   \* the cycles that assigned Service.githubClient
    clientsUsed,     \* per cycle: the clients its GitHub calls went to
    results,         \* the results map
    errors,          \* the errors map
    \* ---- remote calls of one cycle (MonitorUser, fetchAllStarredRepos) ----
    remotePc,        \* position of MonitorUser among its remote calls
    listsLeft,       \* pages the fetch still has to read
    validateCalls,   \* number of times ValidateUser was invoked
    surfaced,        \* the remote error MonitorUser returned: [op, err, calls]
    \* ---- fetch strategy (fetchStarredReposWithFallback) ----
    planCfg,         \* config.IncrementalConfig of the service
    planFile,        \* the UserState the state file holds
    planNow,         \* time.Now(), in minutes
    planPrev,        \* previousState, as loadPreviousState returned it
    planPath,        \* the fetch the strategy chose
    planPc,          \* "load", "choose", "done"
    \* ---- two SaveUserState calls on one path ----
    dirents,         \* the directory: path -> inode number, 0 when absent
    inodes,          \* inode number -> the bytes of the file
    saver,           \* per call: [pc, arg, fd, ret, left]
    \* ---- the fetch of one cycle, call by call (fetchStarredReposWithFallback) ----
    fetchPc,         \* position inside MonitorUser and its fetch
    fetchCfg,        \* config.IncrementalConfig of the service
    pagesToRead,     \* pages the fetch in progress still has to read
    listCalls,       \* GetStarredRepositories calls made: [incremental, full]
    listOutcomes,    \* what the list calls returned: "success", "transient", "terminal"
    fetchedFull,     \* isFullSync of fetchStarredReposWithFallback
    fetchRet,        \* what MonitorUser returned
    cancelledIn,     \* the fetch during which the context was cancelled
    \* ---- spinner (SpinnerProgress) ----
    spinPc,          \* position of the goroutine running spin
    stopPc,          \* position of the caller of Stop
    running,         \* sp.running
    mu,              \* sp.mu: who holds it, "free" when unlocked
    index,           \* sp.index
    \* ---- commands run one after another (runSingleUserMonitor) ----
    cmdPc,           \* position of the command in progress inside MonitorUser
    cmdUsername,     \* the username argument of the command in progress
    cmdStateFile,    \* its --state-file flag
    cmdsLeft,        \* commands still to come
    cmdPrevious      \* previousState of the cycle in progress

retryVars == <<retryCfg, retryPc, attempt, lastErr, opCalls, delay, ctxDone,
               retryResult, opErrs, cancelAt>>

saveVars == <<savePc, saveArg, saveRet, savesLeft, atStart, loadRet>>

fetchVars == <<allRepos, cursor, mostRecentStarredAt, pagesProcessed,
               apiCallsSaved, isFullSync>>

cycleVars == <<svcCfg, stars, cyclePc, runsLeft, envLeft, previousState,
               fetchVars, monitorRet, filesAtStart, starsMoved, validateErr,
               touched, fetchesTried, quietSinceFull>>

multiVars == <<rawUsernames, stateFile, hasToken, usernames, mainPc, goPc,
               githubClient, clientWriters, clientsUsed, results, errors>>

diffVars == <<diffCfg, dPrevious, dCurrent, dChanges, dPc>>

storeVars == <<clock, files, savePc, saveArg, saveRet, savesLeft, atStart, loadRet>>

callVars == <<remotePc, listsLeft, validateCalls, surfaced>>

planVars == <<planCfg, planFile, planNow, planPrev, planPath, planPc>>

concVars == <<dirents, inodes, saver>>

fallbackVars == <<fetchPc, fetchCfg, pagesToRead, listCalls, listOutcomes, fetchedFull,
                  fetchRet, cancelledIn>>

spinVars == <<spinPc, stopPc, running, mu, index>>

ownerVars == <<cmdPc, cmdUsername, cmdStateFile, cmdsLeft, cmdPrevious>>

vars == <<retryVars, diffVars, storeVars, cycleVars, multiVars, callVars, planVars,
          concVars, fallbackVars, spinVars, ownerVars>>

(***************************************************************************)
(*                          Retry executor                                 *)
(***************************************************************************)

\* Largest MaxRetries the model configures.
MaxRetriesBound == 3

\* config.DefaultConfig().Retry, in seconds.
InitialDelay == 1
MaxDelay == 30
BackoffMultiplier == 2
RateLimitBuffer == 30
\* extractRetryAfter: the fixed 60 s the service attaches to rate-limit errors.
DefaultRetryAfter == 60

NoErr == [wrapped |-> FALSE, IsRateLimit |-> FALSE, RetryAfter |-> 0,
          IsTemporary |-> FALSE, text |-> {}, serverReset |-> 0]

\* The patterns RetryManager.isTemporaryError looks for in the lowered text.
temporaryPatterns ==
    {"connection reset", "connection refused", "timeout", "temporary failure",
     "network is unreachable", "no such host", "i/o timeout",
     "context deadline exceeded", "server error", "internal server error",
     "bad gateway", "service unavailable", "gateway timeout"}

\* The patterns isRateLimitError looks for.
rateLimitPatterns ==
    {"rate limit", "api rate limit exceeded", "403 forbidden",
     "secondary rate limit", "abuse detection"}

\* An error's text is the set of patterns that occur in it; serverReset is
\* the number of seconds until the reset the server's response indicates,
\* 0 when it indicates none.
PlainError(patterns) ==
    [wrapped |-> FALSE, IsRateLimit |-> FALSE, RetryAfter |-> 0,
     IsTemporary |-> FALSE, text |-> patterns, serverReset |-> 0]

\* The rate-limit answers of the server in the model: without a reset time,
\* and with one that is not the default of extractRetryAfter.
ServerResets == {0, 2 * DefaultRetryAfter}

\* A 403 rate-limit response of the GitHub API.
ServerRateLimitError(reset) ==
    [PlainError({"rate limit", "403 forbidden"}) EXCEPT !.serverReset = reset]

isTemporaryError(err) == err.text \cap temporaryPatterns # {}

isRateLimitError(err) == err.text \cap rateLimitPatterns # {}

extractRetryAfter(err) == DefaultRetryAfter

WrapRetryableError(err, isRateLimit, retryAfter) ==
    [wrapped |-> TRUE, IsRateLimit |-> isRateLimit, RetryAfter |-> retryAfter,
     IsTemporary |-> TRUE, text |-> err.text, serverReset |-> err.serverReset]

WrapNonRetryableError(err) ==
    [wrapped |-> TRUE, IsRateLimit |-> FALSE, RetryAfter |-> 0,
     IsTemporary |-> FALSE, text |-> err.text, serverReset |-> err.serverReset]

\* The closure the service hands to ExecuteWithRetry: a rate-limit error is
\* wrapped as retryable, any other error is passed through.
ServiceOperationError(err) ==
    IF isRateLimitError(err)
    THEN WrapRetryableError(err, TRUE, extractRetryAfter(err))
    ELSE err

\* The errors an operation returns in the model.
OperationErrors ==
    { PlainError({"timeout"}),
      PlainError({"bad gateway", "server error"}),
      PlainError({}),
      WrapRetryableError(PlainError({}), TRUE, 0),
      WrapNonRetryableError(PlainError({"timeout"})) }
    \cup { ServiceOperationError(ServerRateLimitError(reset)) : reset \in ServerResets }

\* ExecuteWithRetry, lines 77-84: the error as a *RetryableError.
AsRetryable(err) ==
    IF err.wrapped THEN err
    ELSE [err EXCEPT !.IsTemporary = isTemporaryError(err)]

\* An executor that retries whatever the error is.
StopsRetryingNever(cfg, err) == FALSE

\* ExecuteWithRetry, lines 86-96: whether the error ends the loop at once.
StopsRetrying(cfg, err) ==
    LET r == AsRetryable(err)
    IN  \/ ~r.IsTemporary /\ ~r.IsRateLimit
        \/ r.IsRateLimit /\ ~cfg.RetryOnRateLimit

RECURSIVE Pow(_, _)
Pow(b, n) == IF n = 0 THEN 1 ELSE b * Pow(b, n - 1)

calculateDelay(cfg, att, retryableErr) ==
    IF retryableErr.IsRateLimit /\ retryableErr.RetryAfter > 0
    THEN retryableErr.RetryAfter + cfg.RateLimitBuffer
    ELSE LET d == cfg.InitialDelay * Pow(cfg.BackoffMultiplier, att)
         IN  IF d > cfg.MaxDelay THEN cfg.MaxDelay ELSE d

RetryConfigs ==
    [MaxRetries : 0..MaxRetriesBound, InitialDelay : {InitialDelay},
     MaxDelay : {MaxDelay}, BackoffMultiplier : {BackoffMultiplier},
     RetryOnRateLimit : BOOLEAN, RateLimitBuffer : {RateLimitBuffer}]

RetryInit ==
    /\ retryCfg \in RetryConfigs
    /\ retryPc = "check"
    /\ attempt = 0
    /\ lastErr = NoErr
    /\ opCalls = 0
    /\ delay = 0
    /\ ctxDone = FALSE
    /\ retryResult = "none"
    /\ opErrs = {}
    /\ cancelAt = -1

RetryIdle ==
    /\ retryCfg = [MaxRetries |-> 0, InitialDelay |-> InitialDelay,
                   MaxDelay |-> MaxDelay, BackoffMultiplier |-> BackoffMultiplier,
                   RetryOnRateLimit |-> FALSE, RateLimitBuffer |-> RateLimitBuffer]
    /\ retryPc = "done"
    /\ attempt = 0
    /\ lastErr = NoErr
    /\ opCalls = 0
    /\ delay = 0
    /\ ctxDone = FALSE
    /\ retryResult = "none"
    /\ opErrs = {}
    /\ cancelAt = -1

\* A loop that stops one attempt early.
LoopContinuesOffByOne(cfg, att) == att < cfg.MaxRetries

\* The loop condition: attempt <= r.config.MaxRetries.
LoopContinues(cfg, att) == att <= cfg.MaxRetries

\* A loop that does not look at the context before an attempt.
CtxErrIgnored(done) == FALSE

\* The context check before each attempt: ctx.Err() != nil.
CtxErrAtLoopTop(done) == done

RetryCheckCtx ==
    /\ retryPc = "check"
    /\ IF ~LoopContinues(retryCfg, attempt)
       THEN /\ retryPc' = "done"
            /\ retryResult' = "exhausted"
       ELSE IF CtxErrAtLoopTop(ctxDone)
       THEN /\ retryPc' = "done"
            /\ retryResult' = "ctxErr"
       ELSE /\ retryPc' = "call"
            /\ UNCHANGED retryResult
    /\ UNCHANGED <<retryCfg, attempt, lastErr, opCalls, delay, ctxDone, opErrs, cancelAt>>

\* operation() returns nil.
RetryCallSucceeds ==
    /\ retryPc = "call"
    /\ opCalls' = opCalls + 1
    /\ opErrs' = opErrs \cup {"success"}
    /\ retryPc' = "done"
    /\ retryResult' = "ok"
    /\ UNCHANGED <<retryCfg, attempt, lastErr, delay, ctxDone, cancelAt>>

ErrKind(cfg, err) ==
    IF StopsRetrying(cfg, err) THEN "terminal" ELSE "transient"

\* operation() returns err: the last attempt, a terminal error, or a wait.
RetryCallFails ==
    /\ retryPc = "call"
    /\ \E err \in OperationErrors :
        /\ opCalls' = opCalls + 1
        /\ opErrs' = opErrs \cup {ErrKind(retryCfg, err)}
        /\ lastErr' = err
        /\ IF attempt = retryCfg.MaxRetries
           THEN /\ retryPc' = "done"
                /\ retryResult' = "exhausted"
                /\ UNCHANGED delay
           ELSE IF StopsRetrying(retryCfg, err)
           THEN /\ retryPc' = "done"
                /\ retryResult' = "err"
                /\ UNCHANGED delay
           ELSE /\ delay' = calculateDelay(retryCfg, attempt, AsRetryable(err))
                /\ retryPc' = "wait"
                /\ UNCHANGED retryResult
    /\ UNCHANGED <<retryCfg, attempt, ctxDone, cancelAt>>

\* select: <-time.After(delay)
RetryWaitElapsed ==
    /\ retryPc = "wait"
    /\ attempt' = attempt + 1
    /\ retryPc' = "check"
    /\ UNCHANGED <<retryCfg, lastErr, opCalls, delay, ctxDone, retryResult, opErrs, cancelAt>>

\* select: <-ctx.Done()
RetryWaitCancelled ==
    /\ retryPc = "wait"
    /\ ctxDone
    /\ retryPc' = "done"
    /\ retryResult' = "ctxErr"
    /\ UNCHANGED <<retryCfg, attempt, lastErr, opCalls, delay, ctxDone, opErrs, cancelAt>>

\* The caller cancels the context.
CancelContext ==
    /\ retryPc # "done"
    /\ ~ctxDone
    /\ ctxDone' = TRUE
    /\ cancelAt' = IF retryPc = "wait" THEN opCalls ELSE cancelAt
    /\ UNCHANGED <<retryCfg, retryPc, attempt, lastErr, opCalls, delay, retryResult, opErrs>>

(***************************************************************************)
(*                    Repositories and change detection                    *)
(***************************************************************************)

\* reStarThreshold = 10 * time.Minute, in minutes.
reStarThreshold == 10

\* Number of repository names (FullName) in the model.
NumRepoNames == 2

RepoNames == 1..NumRepoNames

\* The metadata of a repository that hasRepositoryChanged compares.  The
\* model uses a base value and one with a different star count.
MetaBase ==
    [Description |-> "d", StarCount |-> 0, Language |-> "go",
     Private |-> FALSE, UpdatedAt |-> 1]

MetaStarred == [MetaBase EXCEPT !.StarCount = 1]

MetaSamples == {MetaBase, MetaStarred}

\* storage.Repository (the URL is not modelled).
Repository(name, starredAt, meta) ==
    [FullName |-> name, StarredAt |-> starredAt,
     Description |-> meta.Description, StarCount |-> meta.StarCount,
     Language |-> meta.Language, Private |-> meta.Private,
     UpdatedAt |-> meta.UpdatedAt]

hasRepositoryChangedAlways(prev, cur) == TRUE

hasRepositoryChanged(prev, cur) ==
    \/ prev.Description # cur.Description
    \/ prev.StarCount # cur.StarCount
    \/ prev.Language # cur.Language
    \/ prev.Private # cur.Private
    \/ prev.UpdatedAt # cur.UpdatedAt

\* The order mergeRepositories sorts by: StarredAt descending, then FullName.
SortsBefore(a, b) ==
    IF a.StarredAt = b.StarredAt
    THEN a.FullName < b.FullName
    ELSE a.StarredAt > b.StarredAt

RECURSIVE SortRepos(_)
SortRepos(S) ==
    IF S = {} THEN <<>>
    ELSE LET first == CHOOSE r \in S : \A o \in S \ {r} : SortsBefore(r, o)
         IN  <<first>> \o SortRepos(S \ {first})

\* The names of a list of repositories.
NamesOf(list) == {list[i].FullName : i \in DOMAIN list}

\* previousMap[name]: a later entry of the list overwrites an earlier one.
MapLookup(list, name) ==
    LET last == CHOOSE i \in DOMAIN list :
                    /\ list[i].FullName = name
                    /\ \A j \in DOMAIN list : list[j].FullName = name => j <= i
    IN  list[last]

\* Whether a starred-at advance is large enough to be a new star:
\* timeDiff > reStarThreshold
ExceedsThreshold(timeDiff) == timeDiff > reStarThreshold

\* The starred-at comparison of findRepositoryChanges, lines 567.
StarredLater(prevRepo, currentRepo) ==
    /\ currentRepo.StarredAt # prevRepo.StarredAt
    /\ currentRepo.StarredAt > prevRepo.StarredAt

\* Whether findRepositoryChanges appends currentRepo to NewStars.
InNewStars(cfg, previous, currentRepo) ==
    IF currentRepo.FullName \notin NamesOf(previous)
    THEN TRUE
    ELSE LET prevRepo == MapLookup(previous, currentRepo.FullName)
         IN  /\ cfg.DetectReStars
             /\ StarredLater(prevRepo, currentRepo)
             /\ ExceedsThreshold(currentRepo.StarredAt - prevRepo.StarredAt)

\* Whether findRepositoryChanges appends currentRepo to ReStars.
InReStars(cfg, previous, currentRepo) ==
    /\ currentRepo.FullName \in NamesOf(previous)
    /\ LET prevRepo == MapLookup(previous, currentRepo.FullName)
       IN  /\ cfg.DetectReStars
           /\ StarredLater(prevRepo, currentRepo)
           /\ ~ExceedsThreshold(currentRepo.StarredAt - prevRepo.StarredAt)

\* Whether findRepositoryChanges appends currentRepo to Updated.
InUpdated(previous, currentRepo) ==
    /\ currentRepo.FullName \in NamesOf(previous)
    /\ hasRepositoryChanged(MapLookup(previous, currentRepo.FullName), currentRepo)

NoChanges ==
    [NewStars |-> <<>>, Unstars |-> <<>>, ReStars |-> <<>>, Updated |-> <<>>,
     TotalChanges |-> 0]

findRepositoryChanges(cfg, previous, current) ==
    LET newStars == SelectSeq(current, LAMBDA c : InNewStars(cfg, previous, c))
        reStars  == SelectSeq(current, LAMBDA c : InReStars(cfg, previous, c))
        updated  == SelectSeq(current, LAMBDA c : InUpdated(previous, c))
        unstars  == IF cfg.DetectUnstars
                    THEN SelectSeq(previous,
                                   LAMBDA r : r.FullName \notin NamesOf(current))
                    ELSE <<>>
    IN  [NewStars |-> newStars, Unstars |-> unstars, ReStars |-> reStars,
         Updated |-> updated,
         TotalChanges |-> Len(newStars) + Len(unstars) + Len(reStars) + Len(updated)]

\* The inputs of the classifier: per name, a previous entry (or none) and a
\* current entry (or none); the starred-at values put an advance of one less
\* than, exactly and one more than the threshold among the cases.
DiffPrevTimes == {1, 2}

DiffCurTimes == {1, 2, reStarThreshold, 1 + reStarThreshold, 2 + reStarThreshold}

\* One choice per name: <<starredAt, metadata>>, starredAt 0 for no entry.
NoEntry == <<0, MetaBase>>

DiffPrevChoices == [RepoNames -> {NoEntry} \cup (DiffPrevTimes \X {MetaBase})]

DiffCurChoices == [RepoNames -> {NoEntry} \cup (DiffCurTimes \X MetaSamples)]

ReposOfChoice(f) ==
    { Repository(n, f[n][1], f[n][2]) : n \in {m \in RepoNames : f[m][1] # 0} }

DiffInit ==
    /\ diffCfg \in [DetectReStars : BOOLEAN, DetectUnstars : BOOLEAN]
    /\ dPrevious \in { SortRepos(ReposOfChoice(f)) : f \in DiffPrevChoices }
    /\ dCurrent \in { SortRepos(ReposOfChoice(f)) : f \in DiffCurChoices }
    /\ dChanges = NoChanges
    /\ dPc = "input"

DiffIdle ==
    /\ diffCfg = [DetectReStars |-> TRUE, DetectUnstars |-> TRUE]
    /\ dPrevious = <<>>
    /\ dCurrent = <<>>
    /\ dChanges = NoChanges
    /\ dPc = "done"

\* One call of findRepositoryChanges.
FindChanges ==
    /\ dPc = "input"
    /\ dChanges' = findRepositoryChanges(diffCfg, dPrevious, dCurrent)
    /\ dPc' = "done"
    /\ UNCHANGED <<diffCfg, dPrevious, dCurrent>>

(***************************************************************************)
(*                     UserState and the JSON storage                      *)
(***************************************************************************)

\* githubUsernamePattern, as the set of names that match it in the model.
ValidUsernames == {"alice", "bob"}

githubUsernamePattern(u) == u \in ValidUsernames

\* Repository.Validate: every FullName and URL of the model is well formed.
RepositoryValidate(r, now) ==
    /\ r.StarCount >= 0
    /\ ~(r.StarredAt > now)

\* UserState.Validate; the tolerance of the incremental timestamps is one minute.
UserStateValidate(u, now) ==
    /\ githubUsernamePattern(u.Username)
    /\ ~(u.LastCheck > now)
    /\ u.StateVersion \in {"", "1.0.0"}
    /\ u.TotalCount >= 0
    /\ u.CheckCount >= 0
    /\ \A i \in DOMAIN u.Repositories : RepositoryValidate(u.Repositories[i], now)
    /\ u.FullSyncInterval >= 0
    /\ u.APICallsSaved >= 0
    /\ ~(u.LastStarredAt > now + 1)
    /\ ~(u.LastFullSyncAt > now + 1)
    /\ ~(u.LastIncrementalAt > now + 1)

\* NewUserState: the zero time is 0, the default full-sync interval 24 hours.
NewUserState(username) ==
    [Username |-> username, LastCheck |-> 0, Repositories |-> <<>>,
     TotalCount |-> 0, StateVersion |-> "1.0.0", CheckCount |-> 0,
     LastStarredAt |-> 0, LastFullSyncAt |-> 0, IncrementalEnabled |-> TRUE,
     FullSyncInterval |-> 24, LastIncrementalAt |-> 0, APICallsSaved |-> 0]

\* The fields of UserState in the order of the struct, which is the order
\* encoding/json writes them in.
UserStateFields ==
    <<"Username", "LastCheck", "Repositories", "TotalCount", "StateVersion",
      "CheckCount", "LastStarredAt", "LastFullSyncAt", "IncrementalEnabled",
      "FullSyncInterval", "LastIncrementalAt", "APICallsSaved">>

\* json.Encoder.Encode: the document as a sequence of tokens.
JSONEncode(u) ==
    <<"{">> \o [i \in 1..Len(UserStateFields) |->
                    <<UserStateFields[i], u[UserStateFields[i]]>>] \o <<"}">>

\* Whether the bytes are a complete JSON document.
JSONWellFormed(data) ==
    /\ Len(data) = Len(UserStateFields) + 2
    /\ data[1] = "{"
    /\ data[Len(data)] = "}"

\* json.Unmarshal into a struct that has only the fields up to check_count:
\* the fields it does not know keep their zero values.
JSONDecodeBaseFields(data) ==
    [f \in {UserStateFields[i] : i \in 1..Len(UserStateFields)} |->
        LET i == CHOOSE k \in 1..Len(UserStateFields) : UserStateFields[k] = f
        IN  IF i <= 6 THEN data[i + 1][2]
            ELSE IF f = "IncrementalEnabled" THEN FALSE ELSE 0]

\* json.Unmarshal of a well-formed document.
JSONDecode(data) ==
    [f \in {UserStateFields[i] : i \in 1..Len(UserStateFields)} |->
        LET i == CHOOSE k \in 1..Len(UserStateFields) : UserStateFields[k] = f
        IN  data[i + 1][2]]

\* A path is <<file name, extension added to it>>.
TempFile(filePath) == <<filePath[1], ".tmp">>

BackupPath(filePath) == <<filePath[1], ".bak">>

NoFile == [exists |-> FALSE, data |-> <<>>]

FileOf(data) == [exists |-> TRUE, data |-> data]

\* os.Rename(from, to)
Rename(fs, from, to) == [fs EXCEPT ![to] = fs[from], ![from] = NoFile]

\* copyFile(src, dst): os.ReadFile then os.WriteFile.
copyFile(fs, src, dst) == [fs EXCEPT ![dst] = FileOf(fs[src].data)]

\* LoadUserState: StateFileNotFoundError, StateCorruptionError or the state.
LoadUserState(fs, filePath, now) ==
    IF ~fs[filePath].exists
    THEN [err |-> "StateFileNotFoundError"]
    ELSE IF ~JSONWellFormed(fs[filePath].data)
    THEN [err |-> "StateCorruptionError"]
    ELSE IF ~UserStateValidate(JSONDecode(fs[filePath].data), now)
    THEN [err |-> "StateCorruptionError"]
    ELSE [err |-> "nil", state |-> JSONDecode(fs[filePath].data)]

Loaded(u) == [err |-> "nil", state |-> u]

\* The state file of the storage specification.
StoreFile == <<"alice.json", "">>

StorePaths == {StoreFile, TempFile(StoreFile), BackupPath(StoreFile)}

\* Number of SaveUserState calls in one run of the storage specification.
MaxSaves == 2

\* Largest check counter among the states saved in the storage specification.
MaxStoreCheck == 2

\* The states handed to SaveUserState: valid ones and ones Validate rejects.
StoreStates ==
    { [NewUserState(u) EXCEPT !.CheckCount = n, !.LastCheck = 1,
                              !.Repositories = repos, !.TotalCount = Len(repos)] :
        u \in {"alice", "-bad"}, n \in 1..MaxStoreCheck,
        repos \in {<<>>, <<Repository(1, 1, MetaBase)>>} }

StoreInit ==
    /\ clock = 2
    /\ files = [p \in StorePaths |-> NoFile]
    /\ savePc = "idle"
    /\ saveArg = NewUserState("alice")
    /\ saveRet = "none"
    /\ savesLeft = MaxSaves
    /\ atStart = [err |-> "StateFileNotFoundError"]
    /\ loadRet = [err |-> "none"]

StoreIdle ==
    /\ clock = 2
    /\ files = [p \in StorePaths |-> NoFile]
    /\ savePc = "idle"
    /\ saveArg = NewUserState("alice")
    /\ saveRet = "none"
    /\ savesLeft = 0
    /\ atStart = [err |-> "StateFileNotFoundError"]
    /\ loadRet = [err |-> "none"]

\* A caller invokes SaveUserState(StoreFile, state).
SaveCall ==
    /\ savePc \in {"idle", "crashed"}
    /\ savesLeft > 0
    /\ \E u \in StoreStates :
        /\ saveArg' = u
        /\ atStart' = LoadUserState(files, StoreFile, clock)
    /\ savesLeft' = savesLeft - 1
    /\ savePc' = "validate"
    /\ saveRet' = "none"
    /\ UNCHANGED <<clock, files, loadRet>>

\* state.Validate()
SaveValidate ==
    /\ savePc = "validate"
    /\ IF UserStateValidate(saveArg, clock)
       THEN savePc' = "mkdir" /\ UNCHANGED saveRet
       ELSE savePc' = "idle" /\ saveRet' = "invalid user state"
    /\ UNCHANGED <<clock, files, saveArg, savesLeft, atStart, loadRet>>

\* os.MkdirAll(dir)
SaveMkdir ==
    /\ savePc = "mkdir"
    /\ \/ savePc' = "backup" /\ UNCHANGED saveRet
       \/ savePc' = "idle" /\ saveRet' = "failed to create directory"
    /\ UNCHANGED <<clock, files, saveArg, savesLeft, atStart, loadRet>>

\* The backup of an existing file; a failed copy is only a warning.
SaveBackup ==
    /\ savePc = "backup"
    /\ \/ files' = IF files[StoreFile].exists
                    THEN copyFile(files, StoreFile, BackupPath(StoreFile))
                    ELSE files
       \/ files[StoreFile].exists /\ UNCHANGED files
    /\ savePc' = "create"
    /\ UNCHANGED <<clock, saveArg, saveRet, savesLeft, atStart, loadRet>>

\* A save that writes the state file in place.
WriteTargetInPlace(filePath) == filePath

\* The file the encoder writes to: tempFile.
WriteTarget(filePath) == TempFile(filePath)

\* os.Create(tempFile)
SaveCreate ==
    /\ savePc = "create"
    /\ \/ /\ files' = [files EXCEPT ![WriteTarget(StoreFile)] = FileOf(<<>>)]
          /\ savePc' = "encode"
          /\ UNCHANGED saveRet
       \/ /\ savePc' = "idle"
          /\ saveRet' = "failed to create temp file"
          /\ UNCHANGED files
    /\ UNCHANGED <<clock, saveArg, savesLeft, atStart, loadRet>>

\* encoder.Encode(state): all the bytes, or an error after some of them.
SaveEncode ==
    /\ savePc = "encode"
    /\ \E k \in 0..Len(JSONEncode(saveArg)) :
        /\ files' = [files EXCEPT ![WriteTarget(StoreFile)] =
                        FileOf(SubSeq(JSONEncode(saveArg), 1, k))]
        /\ IF k = Len(JSONEncode(saveArg))
           THEN savePc' = "close" /\ UNCHANGED saveRet
           ELSE savePc' = "deferred" /\ saveRet' = "failed to encode JSON"
    /\ UNCHANGED <<clock, saveArg, savesLeft, atStart, loadRet>>

\* file.Close()
SaveClose ==
    /\ savePc = "close"
    /\ \/ savePc' = "rename" /\ UNCHANGED saveRet
       \/ savePc' = "deferred" /\ saveRet' = "failed to close temp file"
    /\ UNCHANGED <<clock, files, saveArg, savesLeft, atStart, loadRet>>

\* os.Rename(tempFile, filePath)
SaveRename ==
    /\ savePc = "rename"
    /\ \/ /\ files' = Rename(files, WriteTarget(StoreFile), StoreFile)
          /\ saveRet' = "nil"
       \/ /\ saveRet' = "failed to rename temp file"
          /\ UNCHANGED files
    /\ savePc' = "deferred"
    /\ UNCHANGED <<clock, saveArg, savesLeft, atStart, loadRet>>

\* A way out of SaveUserState that removes nothing.
KeepTempFile(fs, tempFile) == fs

\* os.Stat(tempFile) and, when the file is there, os.Remove(tempFile).
RemoveTempFile(fs, tempFile) ==
    IF fs[tempFile].exists THEN [fs EXCEPT ![tempFile] = NoFile] ELSE fs

\* The deferred function: close, and remove the temp file if it is there.
SaveDeferred ==
    /\ savePc = "deferred"
    /\ files' = RemoveTempFile(files, TempFile(StoreFile))
    /\ savePc' = "idle"
    /\ UNCHANGED <<clock, saveArg, saveRet, savesLeft, atStart, loadRet>>

\* The process is killed inside SaveUserState; a write in progress stops
\* after some of its bytes.
SaveInterrupted ==
    /\ savePc \notin {"idle", "crashed"}
    /\ IF savePc = "encode"
       THEN \E k \in 0..Len(JSONEncode(saveArg)) :
                files' = [files EXCEPT ![WriteTarget(StoreFile)] =
                            FileOf(SubSeq(JSONEncode(saveArg), 1, k))]
       ELSE UNCHANGED files
    /\ savePc' = "crashed"
    /\ saveRet' = "killed"
    /\ UNCHANGED <<clock, saveArg, savesLeft, atStart, loadRet>>

\* LoadUserState(StoreFile), at any moment.
LoadCall ==
    /\ loadRet' = LoadUserState(files, StoreFile, clock)
    /\ UNCHANGED <<clock, files, savePc, saveArg, saveRet, savesLeft, atStart>>

(***************************************************************************)
(*              UserState methods and the fetch planner                    *)
(***************************************************************************)

\* Page size of the model; the service asks for 100 per page.
PerPage == 2

\* Incremental.MaxIncrementalPages of DefaultConfig.
MaxIncrementalPages == 10

\* Incremental.TimestampTolerance: 1 * time.Minute.
TimestampTolerance == 1

\* The hour of FullSyncInterval, in minutes.
MinutesPerHour == 60

ShouldUseIncremental(u) == u.IncrementalEnabled /\ u.LastStarredAt # 0

\* A state that never asks for a full sync.
ShouldPerformFullSyncNever(u, now) == FALSE

ShouldPerformFullSync(u, now) ==
    IF u.LastFullSyncAt = 0 \/ u.FullSyncInterval = 0
    THEN TRUE
    ELSE now > u.LastFullSyncAt + u.FullSyncInterval * MinutesPerHour

\* An update that leaves the state as it is.
UpdateLastStarredAtSkipped(u, newTimestamp, saved) == u

UpdateLastStarredAt(u, newTimestamp, saved) ==
    [u EXCEPT !.LastStarredAt = newTimestamp,
              !.APICallsSaved = u.APICallsSaved + saved]

\* A full sync that leaves no timestamp.
UpdateFullSyncTimestampSkipped(u, now) == u

UpdateFullSyncTimestamp(u, now) == [u EXCEPT !.LastFullSyncAt = now]

UpdateIncrementalTimestamp(u, now, saved) ==
    [u EXCEPT !.LastIncrementalAt = now,
              !.APICallsSaved = u.APICallsSaved + saved]

RECURSIVE MostRecentFrom(_, _, _)
MostRecentFrom(repos, i, mostRecent) ==
    IF i > Len(repos) THEN mostRecent
    ELSE MostRecentFrom(repos, i + 1,
            IF repos[i].StarredAt > mostRecent THEN repos[i].StarredAt ELSE mostRecent)

GetMostRecentStarredAt(u) == MostRecentFrom(u.Repositories, 1, 0)

migrateStateToIncrementalFields(u) ==
    IF ~u.IncrementalEnabled /\ u.FullSyncInterval = 0
    THEN [u EXCEPT !.IncrementalEnabled = TRUE, !.FullSyncInterval = 24]
    ELSE u

\* loadPreviousState: [err, state]; any other load error is returned as it is.
\* A load that starts afresh only when there is no file, and returns the
\* corruption error to the caller.
loadPreviousStateStrict(fs, stateFilePath, username, now) ==
    LET got == LoadUserState(fs, stateFilePath, now)
    IN  IF got.err = "StateFileNotFoundError"
        THEN [err |-> "nil", state |-> NewUserState(username)]
        ELSE IF got.err # "nil"
        THEN [err |-> got.err, state |-> NewUserState("")]
        ELSE [err |-> "nil", state |-> migrateStateToIncrementalFields(got.state)]

loadPreviousState(fs, stateFilePath, username, now) ==
    LET got == LoadUserState(fs, stateFilePath, now)
    IN  IF got.err \in {"StateFileNotFoundError", "StateCorruptionError"}
        THEN [err |-> "nil", state |-> NewUserState(username)]
        ELSE IF got.err # "nil"
        THEN [err |-> got.err, state |-> NewUserState("")]
        ELSE [err |-> "nil", state |-> migrateStateToIncrementalFields(got.state)]

\* A merge that keeps only what was fetched.
mergeFetchedOnly(existing, newRepos) ==
    SortRepos({MapLookup(newRepos, n) : n \in NamesOf(newRepos)})

\* mergeRepositories: by FullName, the new entry wins, then sorted.
mergeRepositories(existing, newRepos) ==
    LET names == NamesOf(existing) \cup NamesOf(newRepos)
        pick(n) == IF n \in NamesOf(newRepos) THEN MapLookup(newRepos, n)
                   ELSE MapLookup(existing, n)
    IN  SortRepos({pick(n) : n \in names})

\* The remote list as the API returns it with sort=created, direction=desc.
RemoteList(starred) == SortRepos(starred)

Min(a, b) == IF a < b THEN a ELSE b

\* GetStarredRepositories: the page of the list the cursor names, and HasNext.
GetStarredRepositories(starred, page) ==
    LET all == RemoteList(starred)
    IN  [Repositories |-> SubSeq(all, (page - 1) * PerPage + 1, Min(page * PerPage, Len(all))),
         HasNext |-> page * PerPage < Len(all)]

\* The loop over one page of fetchStarredReposIncremental (lines 408-423):
\* [new, mostRecent], stopping at the first repository within the tolerance
\* of the most recent timestamp seen so far.
RECURSIVE ProcessPage(_, _, _, _, _)
ProcessPage(cfg, repos, i, mostRecent, acc) ==
    IF i > Len(repos) THEN [new |-> acc, mostRecent |-> mostRecent]
    ELSE IF mostRecent # 0 /\ repos[i].StarredAt - mostRecent <= cfg.TimestampTolerance
    THEN [new |-> acc, mostRecent |-> mostRecent]
    ELSE ProcessPage(cfg, repos, i + 1,
            IF repos[i].StarredAt > mostRecent THEN repos[i].StarredAt ELSE mostRecent,
            Append(acc, repos[i]))

\* SaveUserState as one step: [fs, err]; ioOk is whether every file operation
\* succeeds.  A failed save leaves the state file as it was.
\* A save that writes the document straight to filePath: a failed write
\* leaves the part already written.
SaveUserStateInPlace(fs, filePath, u, now, ioOk) ==
    IF ~UserStateValidate(u, now) THEN [fs |-> fs, err |-> "invalid user state"]
    ELSE IF ~ioOk
    THEN [fs |-> [fs EXCEPT ![filePath] = FileOf(SubSeq(JSONEncode(u), 1, 1))],
          err |-> "failed to write"]
    ELSE [fs |-> [fs EXCEPT ![filePath] = FileOf(JSONEncode(u))], err |-> "nil"]

SaveUserState(fs, filePath, u, now, ioOk) ==
    IF ~UserStateValidate(u, now) THEN [fs |-> fs, err |-> "invalid user state"]
    ELSE LET backedUp == IF fs[filePath].exists
                         THEN copyFile(fs, filePath, BackupPath(filePath))
                         ELSE fs
         IN  IF ~ioOk THEN [fs |-> backedUp, err |-> "failed to write"]
             ELSE [fs |-> Rename([backedUp EXCEPT ![TempFile(filePath)] = FileOf(JSONEncode(u))],
                                 TempFile(filePath), filePath),
                   err |-> "nil"]

NextCheckCountStuck(prev) == prev.CheckCount

\* CheckCount: previousState.CheckCount + 1
NextCheckCount(prev) == prev.CheckCount + 1

\* The updated state MonitorUser builds (lines 193-230).
UpdatedState(username, prev, currentRepos, changes, isFull, saved, now) ==
    LET base == [prev EXCEPT !.Username = username, !.LastCheck = now,
                             !.Repositories = currentRepos,
                             !.TotalCount = Len(currentRepos),
                             !.StateVersion = "1.0.0",
                             !.CheckCount = NextCheckCount(prev)]
        stamped == IF isFull THEN UpdateFullSyncTimestamp(base, now)
                   ELSE UpdateIncrementalTimestamp(base, now, saved)
    IN  IF Len(currentRepos) > 0 /\ GetMostRecentStarredAt(stamped) > stamped.LastStarredAt
        THEN UpdateLastStarredAt(stamped, GetMostRecentStarredAt(stamped), saved)
        ELSE stamped

NoResult == [err |-> "none"]

\* The MonitorResult of a successful cycle.
MonitorResult(username, prev, updated, currentRepos, changes, isFull, saved) ==
    [err |-> "nil", Username |-> username, Changes |-> changes,
     TotalRepositories |-> Len(currentRepos), PreviousCheck |-> prev.LastCheck,
     CurrentCheck |-> updated.LastCheck, IsFirstRun |-> prev.CheckCount = 0,
     IsFullSync |-> isFull, APICallsSaved |-> saved,
     IncrementalEnabled |-> updated.IncrementalEnabled]

(***************************************************************************)
(*                 The monitoring cycle: Service.MonitorUser               *)
(***************************************************************************)

\* The user the single-user command monitors, and their state file.
Username == "alice"

\* Runs of the command in one behaviour.
MaxRuns == 2

\* Changes of the GitHub side and of the state file in one behaviour.
MaxEnvSteps == 2

\* Repository names that can be starred.
NumStarNames == 3

StarNames == 1..NumStarNames

\* config.IncrementalConfig: DefaultConfig and one variant per setting.
DefaultIncremental ==
    [Enabled |-> TRUE, FallbackOnError |-> TRUE,
     MaxIncrementalPages |-> MaxIncrementalPages,
     TimestampTolerance |-> TimestampTolerance,
     DetectUnstars |-> TRUE, DetectReStars |-> TRUE]

CycleConfigs ==
    {DefaultIncremental,
     [DefaultIncremental EXCEPT !.Enabled = FALSE],
     [DefaultIncremental EXCEPT !.FallbackOnError = FALSE],
     [DefaultIncremental EXCEPT !.MaxIncrementalPages = 1]}

\* The time between two runs: the timestamp tolerance, or a little more than
\* the default full-sync interval.
TickSteps ==
    {TimestampTolerance, 24 * MinutesPerHour + 1}

NoState == NewUserState("")

CycleInitFrom(configs, starSets, runs, envSteps) ==
    /\ svcCfg \in configs
    /\ stars \in starSets
    /\ cyclePc = "idle"
    /\ runsLeft = runs
    /\ envLeft = envSteps
    /\ previousState = NoState
    /\ allRepos = <<>>
    /\ cursor = 1
    /\ mostRecentStarredAt = 0
    /\ pagesProcessed = 0
    /\ apiCallsSaved = 0
    /\ isFullSync = FALSE
    /\ monitorRet = NoResult
    /\ filesAtStart = [p \in StorePaths |-> NoFile]
    /\ starsMoved = FALSE
    /\ validateErr = "none"
    /\ touched = {}
    /\ fetchesTried = {}
    /\ quietSinceFull = FALSE

\* A user who has starred nothing or one repository before the first run.
CycleInitWith(configs, runs, envSteps) ==
    CycleInitFrom(configs, {{}, {Repository(1, 1, MetaBase)}}, runs, envSteps)

\* Every configuration, MaxRuns runs.
CycleInit == CycleInitWith(CycleConfigs, MaxRuns, MaxEnvSteps)

\* The default configuration, one more run and one change.
ThreeRunsInit == CycleInitWith({DefaultIncremental}, MaxRuns + 1, 1)

\* A user who has starred the first k repositories before the first run, the
\* first of them a minute before the others.
StarredBefore(k) == {Repository(n, Min(n, 2), MetaBase) : n \in 1..k}

\* Every configuration, a user with up to NumStarNames stars, one change.
StarredInit ==
    CycleInitFrom(CycleConfigs, {StarredBefore(k) : k \in 0..NumStarNames}, MaxRuns, 1)

\* Every configuration, a user whose stars fill more than one page of the
\* list, MaxEnvSteps changes.
PagedInit ==
    CycleInitFrom(CycleConfigs, {StarredBefore(NumStarNames)}, MaxRuns, MaxEnvSteps)

\* Runs and changes of the GitHub side in a behaviour of the schedule.
ScheduledRuns == 4

ScheduledChanges == 2

\* The schedule under the default configuration.
ScheduledInit ==
    CycleInitFrom({DefaultIncremental}, {{}, {Repository(1, 1, MetaBase)}},
                  ScheduledRuns, ScheduledChanges)

CycleIdle ==
    /\ svcCfg = DefaultIncremental
    /\ stars = {}
    /\ cyclePc = "idle"
    /\ runsLeft = 0
    /\ envLeft = 0
    /\ previousState = NoState
    /\ allRepos = <<>>
    /\ cursor = 1
    /\ mostRecentStarredAt = 0
    /\ pagesProcessed = 0
    /\ apiCallsSaved = 0
    /\ isFullSync = FALSE
    /\ monitorRet = NoResult
    /\ filesAtStart = [p \in StorePaths |-> NoFile]
    /\ starsMoved = FALSE
    /\ validateErr = "none"
    /\ touched = {}
    /\ fetchesTried = {}
    /\ quietSinceFull = FALSE

\* The GitHub side changes between two runs or between two list calls of a
\* run.  Only the list calls read the starred set, so a change before the
\* first list call of a run is a change before the run, and a change after
\* the last run is read by nothing.
EnvEnabled ==
    /\ envLeft > 0
    /\ \/ cyclePc = "idle" /\ runsLeft > 0
       \/ cyclePc \in {"incremental", "full"} /\ cursor > 1

EnvFrame ==
    /\ envLeft' = envLeft - 1
    /\ starsMoved' = TRUE
    /\ UNCHANGED <<clock, files, svcCfg, cyclePc, runsLeft, previousState,
                   fetchVars, monitorRet, filesAtStart, validateErr, touched,
                   fetchesTried, quietSinceFull>>

\* The user stars a repository.
Star ==
    /\ EnvEnabled
    /\ \E n \in StarNames :
        /\ \A r \in stars : r.FullName # n
        /\ stars' = stars \cup {Repository(n, clock, MetaBase)}
    /\ EnvFrame

\* The user removes a star.
Unstar ==
    /\ EnvEnabled
    /\ \E r \in stars : stars' = stars \ {r}
    /\ EnvFrame

\* A starred repository gains a stargazer.
RepoUpdated ==
    /\ EnvEnabled
    /\ \E r \in stars :
        /\ r.StarCount = MetaBase.StarCount
        /\ stars' = (stars \ {r}) \cup {[r EXCEPT !.StarCount = MetaStarred.StarCount]}
    /\ EnvFrame

\* What a damaged state file holds: the document cut short, which does not
\* parse, or a document that parses and does not pass Validate.
DamagedCopies(data) ==
    {SubSeq(data, 1, Len(data) - 1),
     JSONEncode([JSONDecode(data) EXCEPT !.Username = "-bad"])}

\* The state file is damaged between two runs.
CorruptStateFile ==
    /\ cyclePc = "idle"
    /\ runsLeft > 0
    /\ envLeft > 0
    /\ LoadUserState(files, StoreFile, clock).err = "nil"
    /\ \E damaged \in DamagedCopies(files[StoreFile].data) :
        files' = [files EXCEPT ![StoreFile] = FileOf(damaged)]
    /\ envLeft' = envLeft - 1
    /\ UNCHANGED <<clock, svcCfg, stars, cyclePc, runsLeft, previousState,
                   fetchVars, monitorRet, filesAtStart, starsMoved,
                   validateErr, touched, fetchesTried, quietSinceFull>>

\* MonitorUser is called: a run of the command begins, some time after the
\* run before it.
CycleStartAfter(steps) ==
    /\ cyclePc = "idle"
    /\ runsLeft > 0
    /\ runsLeft' = runsLeft - 1
    /\ cyclePc' = "validate"
    /\ filesAtStart' = files
    /\ starsMoved' = FALSE
    /\ validateErr' = "none"
    /\ touched' = {}
    /\ fetchesTried' = {}
    /\ quietSinceFull' = (quietSinceFull /\ ~starsMoved)
    /\ monitorRet' = NoResult
    /\ \E d \in steps : clock' = clock + d
    /\ UNCHANGED <<files, svcCfg, stars, envLeft, previousState, fetchVars>>

CycleStart == CycleStartAfter(TickSteps)

\* The command is run on a schedule: every twelve hours, or after a pause of
\* more than a day.
ScheduleSteps == {12 * MinutesPerHour, 24 * MinutesPerHour + 1}

ScheduledStart == CycleStartAfter(ScheduleSteps)

\* Runs of the schedule that make sure a full-sync interval of 24 hours has
\* passed since any full sync made before them.
RunsToFullSync == (24 * MinutesPerHour) \div (12 * MinutesPerHour) + 1

\* The user stars a repository while that many runs are still to come.
StarInTime == Star /\ runsLeft >= RunsToFullSync

ValidationAbortsNever(err) == FALSE

\* if err := s.githubClient.ValidateUser(...); err != nil { return ... }
ValidationAborts(err) == err # "nil"

\* s.githubClient.ValidateUser, called without the retry executor.
ValidateUser ==
    /\ cyclePc = "validate"
    /\ \E err \in {"nil", "user not found"} :
        /\ validateErr' = err
        /\ IF ValidationAborts(err)
           THEN /\ monitorRet' = [err |-> "user validation failed"]
                /\ cyclePc' = "done"
           ELSE /\ monitorRet' = monitorRet
                /\ cyclePc' = "load"
    /\ UNCHANGED <<clock, files, svcCfg, stars, runsLeft, envLeft, previousState,
                   fetchVars, filesAtStart, starsMoved, touched,
                   fetchesTried, quietSinceFull>>

\* The guard of fetchStarredReposWithFallback.
UsesIncremental(cfg, prev, now) ==
    cfg.Enabled /\ ShouldUseIncremental(prev) /\ ~ShouldPerformFullSync(prev, now)

\* loadPreviousState, then the choice of fetchStarredReposWithFallback.
LoadPrevious ==
    /\ cyclePc = "load"
    /\ LET loaded == loadPreviousState(files, StoreFile, Username, clock)
           prev == loaded.state
       IN  IF loaded.err # "nil"
           THEN /\ monitorRet' = [err |-> "failed to load previous state"]
                /\ cyclePc' = "done"
                /\ UNCHANGED <<previousState, isFullSync, mostRecentStarredAt,
                               fetchesTried>>
           ELSE /\ previousState' = prev
                /\ monitorRet' = monitorRet
                /\ IF UsesIncremental(svcCfg, prev, clock)
                   THEN /\ cyclePc' = "incremental"
                        /\ isFullSync' = FALSE
                        /\ mostRecentStarredAt' = prev.LastStarredAt
                        /\ fetchesTried' = {"incremental"}
                   ELSE /\ cyclePc' = "full"
                        /\ isFullSync' = TRUE
                        /\ mostRecentStarredAt' = 0
                        /\ fetchesTried' = {"full"}
    /\ touched' = touched \cup {"load"}
    /\ allRepos' = <<>>
    /\ cursor' = 1
    /\ pagesProcessed' = 0
    /\ apiCallsSaved' = 0
    /\ UNCHANGED <<clock, files, svcCfg, stars, runsLeft, envLeft,
                   filesAtStart, starsMoved, validateErr, quietSinceFull>>

\* fetchAllStarredRepos against a starred set that does not change while it
\* pages: the pages from the cursor on, appended.
RECURSIVE fetchAllStarredRepos(_, _, _)
fetchAllStarredRepos(starred, page, acc) ==
    LET response == GetStarredRepositories(starred, page)
    IN  IF response.HasNext
        THEN fetchAllStarredRepos(starred, page + 1, acc \o response.Repositories)
        ELSE acc \o response.Repositories

\* The estimate of lines 448-453, made when the loop goes on to a next page.
EstimatedPagesSkipped(prev, got) ==
    IF Len(got) < prev.TotalCount
    THEN (prev.TotalCount - Len(got)) \div PerPage
    ELSE 0

\* A loop that never looks at the page limit.
ReachedMaxPagesNever(cfg, processed) == FALSE

\* if pagesProcessed >= s.config.Incremental.MaxIncrementalPages
ReachedMaxPages(cfg, processed) == processed >= cfg.MaxIncrementalPages

\* One iteration of the loop of fetchStarredReposIncremental whose list call
\* (made through the retry executor) succeeds; on leaving the loop,
\* fetchStarredReposWithFallback merges the result into the previous list.
IncrementalPage ==
    /\ cyclePc = "incremental"
    /\ IF ReachedMaxPages(svcCfg, pagesProcessed)
       THEN /\ allRepos' = mergeRepositories(previousState.Repositories, allRepos)
            /\ cyclePc' = "finish"
            /\ UNCHANGED <<cursor, mostRecentStarredAt, pagesProcessed, apiCallsSaved>>
       ELSE LET response == GetStarredRepositories(stars, cursor)
                page == ProcessPage(svcCfg, response.Repositories, 1,
                                    mostRecentStarredAt, <<>>)
                got == allRepos \o page.new
                stop == \/ Len(page.new) = 0
                        \/ Len(response.Repositories) < PerPage
                        \/ ~response.HasNext
            IN  /\ pagesProcessed' = pagesProcessed + 1
                /\ mostRecentStarredAt' = page.mostRecent
                /\ IF stop
                   THEN /\ allRepos' = mergeRepositories(previousState.Repositories, got)
                        /\ cyclePc' = "finish"
                        /\ UNCHANGED <<cursor, apiCallsSaved>>
                   ELSE /\ allRepos' = got
                        /\ cyclePc' = "incremental"
                        /\ cursor' = cursor + 1
                        /\ apiCallsSaved' = apiCallsSaved
                                + EstimatedPagesSkipped(previousState, got)
    /\ UNCHANGED <<clock, files, svcCfg, stars, runsLeft, envLeft, previousState,
                   isFullSync, monitorRet, filesAtStart, starsMoved, validateErr,
                   touched,
                   fetchesTried, quietSinceFull>>

FallsBackAlways(cfg) == TRUE

\* if s.config.Incremental.FallbackOnError
FallsBack(cfg) == cfg.FallbackOnError

\* The list call of the incremental fetch fails after its retries: the full
\* sync takes over if FallbackOnError is set, else MonitorUser returns.
IncrementalFetchFails ==
    /\ cyclePc = "incremental"
    /\ pagesProcessed < svcCfg.MaxIncrementalPages
    /\ IF FallsBack(svcCfg)
       THEN /\ cyclePc' = "full"
            /\ isFullSync' = TRUE
            /\ fetchesTried' = fetchesTried \cup {"full"}
            /\ monitorRet' = monitorRet
       ELSE /\ cyclePc' = "done"
            /\ isFullSync' = FALSE
            /\ fetchesTried' = fetchesTried
            /\ monitorRet' =
                    [err |-> "failed to fetch repositories",
                     cause |-> "incremental fetch failed and fallback disabled"]
    /\ allRepos' = <<>>
    /\ cursor' = 1
    /\ mostRecentStarredAt' = 0
    /\ pagesProcessed' = 0
    /\ apiCallsSaved' = 0
    /\ UNCHANGED <<clock, files, svcCfg, stars, runsLeft, envLeft, previousState,
                   filesAtStart, starsMoved, validateErr, touched, quietSinceFull>>

\* One iteration of the loop of fetchAllStarredRepos whose list call succeeds.
FullPage ==
    /\ cyclePc = "full"
    /\ LET response == GetStarredRepositories(stars, cursor)
       IN  /\ allRepos' = allRepos \o response.Repositories
           /\ IF response.HasNext
              THEN cyclePc' = "full" /\ cursor' = cursor + 1
              ELSE cyclePc' = "finish" /\ cursor' = cursor
    /\ UNCHANGED <<clock, files, svcCfg, stars, runsLeft, envLeft, previousState,
                   mostRecentStarredAt, pagesProcessed, apiCallsSaved, isFullSync,
                   monitorRet, filesAtStart, starsMoved, validateErr, touched,
                   fetchesTried, quietSinceFull>>

\* The list call of the full sync fails after its retries: its error is
\* returned as it is, wrapped by MonitorUser only.
FullFetchFails ==
    /\ cyclePc = "full"
    /\ cyclePc' = "done"
    /\ monitorRet' = [err |-> "failed to fetch repositories",
                      cause |-> "list call error"]
    /\ UNCHANGED <<clock, files, svcCfg, stars, runsLeft, envLeft, previousState,
                   fetchVars, filesAtStart, starsMoved, validateErr, touched,
                   fetchesTried, quietSinceFull>>

\* Lines 187-261 of MonitorUser: the changes, the updated state, the save and
\* the result.
Finish ==
    /\ cyclePc = "finish"
    /\ LET changes == findRepositoryChanges(svcCfg, previousState.Repositories, allRepos)
           updated == UpdatedState(Username, previousState, allRepos, changes,
                                   isFullSync, apiCallsSaved, clock)
       IN  \E ioOk \in BOOLEAN :
             LET saved == SaveUserState(files, StoreFile, updated, clock, ioOk)
             IN  /\ files' = saved.fs
                 /\ monitorRet' =
                        IF saved.err = "nil"
                        THEN MonitorResult(Username, previousState, updated, allRepos,
                                           changes, isFullSync, apiCallsSaved)
                        ELSE [err |-> "failed to save state"]
    /\ touched' = touched \cup {"save"}
    /\ cyclePc' = "done"
    /\ UNCHANGED <<clock, svcCfg, stars, runsLeft, envLeft, previousState,
                   fetchVars, filesAtStart, starsMoved, validateErr,
                   fetchesTried, quietSinceFull>>

\* The command prints the result and the process exits.  A run that failed
\* is the last one of the behaviour: it wrote nothing that a later run reads,
\* so what could follow it follows the state it started from as well.
Exit ==
    /\ cyclePc = "done"
    /\ cyclePc' = "idle"
    /\ previousState' = NoState
    /\ allRepos' = <<>>
    /\ cursor' = 1
    /\ mostRecentStarredAt' = 0
    /\ pagesProcessed' = 0
    /\ apiCallsSaved' = 0
    /\ isFullSync' = FALSE
    /\ monitorRet' = NoResult
    /\ filesAtStart' = files
    /\ starsMoved' = FALSE
    /\ validateErr' = "none"
    /\ touched' = {}
    /\ fetchesTried' = {}
    /\ quietSinceFull' = (/\ monitorRet.err = "nil"
                          /\ monitorRet.IsFullSync
                          /\ ~starsMoved)
    /\ runsLeft' = IF monitorRet.err = "nil" THEN runsLeft ELSE 0
    /\ UNCHANGED <<clock, files, svcCfg, stars, envLeft>>

(***************************************************************************)
(*          The monitor command: runMonitor and runMultiUserMonitor        *)
(***************************************************************************)

\* The longest comma-separated argument of the model.
MaxArgTokens == 2

\* The pieces strings.Split can return in the model.
RawTokens == {"alice", " bob", "", "-bad"}

\* strings.TrimSpace
TrimSpace(str) == IF str = " bob" THEN "bob" ELSE str

\* parseUsernames: [err, usernames].  Empty pieces are skipped, a piece that
\* does not match the pattern rejects the argument, nothing removes a
\* username that occurs twice.
RECURSIVE parseUsernames(_, _, _)
parseUsernames(raw, i, acc) ==
    IF i > Len(raw)
    THEN IF Len(acc) = 0
         THEN [err |-> "no valid usernames provided", usernames |-> <<>>]
         ELSE [err |-> "nil", usernames |-> acc]
    ELSE LET username == TrimSpace(raw[i])
         IN  IF username = "" THEN parseUsernames(raw, i + 1, acc)
             ELSE IF ~githubUsernamePattern(username)
             THEN [err |-> "invalid GitHub username format", usernames |-> <<>>]
             ELSE parseUsernames(raw, i + 1, Append(acc, username))

\* The file name of the default state file: {username}.json
StateFileName == [alice |-> "alice.json", bob |-> "bob.json"]

\* getStateFilePath: the --state-file flag if it is set, for every username.
getStateFilePath(flag, username) ==
    IF flag # "" THEN <<flag, "">> ELSE <<StateFileName[username], "">>

Cycles == DOMAIN goPc

\* MonitorUser of cycle k has been called and has not returned.
InFlight(k) == goPc[k] \in {"token", "validate", "load", "fetch", "save"}

\* Cycle k has read its state file and MonitorUser has not returned.
HoldsStateFile(k) == goPc[k] \in {"fetch", "save"}

MultiInit ==
    /\ rawUsernames \in UNION {[1..n -> RawTokens] : n \in 1..MaxArgTokens}
    /\ stateFile \in {"", "custom.json"}
    /\ hasToken \in BOOLEAN
    /\ usernames = <<>>
    /\ mainPc = "parse"
    /\ goPc = <<>>
    /\ githubClient = 0
    /\ clientWriters = {}
    /\ clientsUsed = <<>>
    /\ results = {}
    /\ errors = {}

MultiIdle ==
    /\ rawUsernames = <<"alice">>
    /\ stateFile = ""
    /\ hasToken = FALSE
    /\ usernames = <<>>
    /\ mainPc = "done"
    /\ goPc = <<>>
    /\ githubClient = 0
    /\ clientWriters = {}
    /\ clientsUsed = <<>>
    /\ results = {}
    /\ errors = {}

\* runMonitor: parseUsernames, then the service is created; one username goes
\* to runSingleUserMonitor, several go to runMultiUserMonitor.
ParseUsernames ==
    /\ mainPc = "parse"
    /\ LET parsed == parseUsernames(rawUsernames, 1, <<>>)
       IN  /\ usernames' = parsed.usernames
           /\ mainPc' = IF parsed.err # "nil" THEN "rejected"
                        ELSE IF Len(parsed.usernames) = 1 THEN "single"
                        ELSE "multi"
           /\ goPc' = [k \in 1..Len(parsed.usernames) |-> "new"]
           /\ clientsUsed' = [k \in 1..Len(parsed.usernames) |-> {}]
    /\ UNCHANGED <<rawUsernames, stateFile, hasToken, githubClient,
                   clientWriters, results, errors>>

\* go func(user string) {...}(username), or the call of runSingleUserMonitor.
StartCycle ==
    /\ mainPc \in {"single", "multi"}
    /\ \E k \in Cycles :
        /\ goPc[k] = "new"
        /\ \A j \in Cycles : j < k => goPc[j] # "new"
        /\ goPc' = [goPc EXCEPT ![k] = "token"]
    /\ UNCHANGED <<rawUsernames, stateFile, hasToken, usernames, mainPc,
                   githubClient, clientWriters, clientsUsed, results, errors>>

\* MonitorUser lines 158-165: with a token, s.githubClient is replaced.
GetToken ==
    /\ \E k \in Cycles :
        /\ goPc[k] = "token"
        /\ goPc' = [goPc EXCEPT ![k] = "validate"]
        /\ IF hasToken
           THEN /\ githubClient' = k
                /\ clientWriters' = clientWriters \cup {k}
           ELSE UNCHANGED <<githubClient, clientWriters>>
    /\ UNCHANGED <<rawUsernames, stateFile, hasToken, usernames, mainPc,
                   clientsUsed, results, errors>>

\* s.githubClient.ValidateUser: the field is read without synchronisation
\* and holds whatever a cycle assigned last.
ValidateUserCall ==
    /\ \E k \in Cycles :
        /\ goPc[k] = "validate"
        /\ clientsUsed' = [clientsUsed EXCEPT ![k] = @ \cup {githubClient}]
        /\ \E ok \in BOOLEAN :
            goPc' = [goPc EXCEPT ![k] = IF ok THEN "load" ELSE "failed"]
    /\ UNCHANGED <<rawUsernames, stateFile, hasToken, usernames, mainPc,
                   githubClient, clientWriters, results, errors>>

\* loadPreviousState(getStateFilePath(user), user)
LoadStateFile ==
    /\ \E k \in Cycles :
        /\ goPc[k] = "load"
        /\ goPc' = [goPc EXCEPT ![k] = "fetch"]
    /\ UNCHANGED <<rawUsernames, stateFile, hasToken, usernames, mainPc,
                   githubClient, clientWriters, clientsUsed, results, errors>>

\* fetchStarredReposWithFallback: list calls on s.githubClient.
FetchCall ==
    /\ \E k \in Cycles :
        /\ goPc[k] = "fetch"
        /\ clientsUsed' = [clientsUsed EXCEPT ![k] = @ \cup {githubClient}]
        /\ \E ok \in BOOLEAN :
            goPc' = [goPc EXCEPT ![k] = IF ok THEN "save" ELSE "failed"]
    /\ UNCHANGED <<rawUsernames, stateFile, hasToken, usernames, mainPc,
                   githubClient, clientWriters, results, errors>>

\* SaveUserState(getStateFilePath(user), updatedState)
SaveStateFile ==
    /\ \E k \in Cycles :
        /\ goPc[k] = "save"
        /\ \E ok \in BOOLEAN :
            goPc' = [goPc EXCEPT ![k] = IF ok THEN "succeeded" ELSE "failed"]
    /\ UNCHANGED <<rawUsernames, stateFile, hasToken, usernames, mainPc,
                   githubClient, clientWriters, clientsUsed, results, errors>>

\* MonitorUser has returned: under the mutex the user's entry goes into the
\* results or the errors map, then wg.Done().
RecordResult ==
    /\ \E k \in Cycles :
        /\ goPc[k] \in {"succeeded", "failed"}
        /\ goPc' = [goPc EXCEPT ![k] = "done"]
        /\ IF goPc[k] = "failed"
           THEN errors' = errors \cup {usernames[k]} /\ results' = results
           ELSE results' = results \cup {usernames[k]} /\ errors' = errors
    /\ UNCHANGED <<rawUsernames, stateFile, hasToken, usernames, mainPc,
                   githubClient, clientWriters, clientsUsed>>

\* wg.Wait() returns and the results are printed.
CommandReturns ==
    /\ mainPc \in {"single", "multi"}
    /\ \A k \in Cycles : goPc[k] = "done"
    /\ mainPc' = "done"
    /\ UNCHANGED <<rawUsernames, stateFile, hasToken, usernames, goPc,
                   githubClient, clientWriters, clientsUsed, results, errors>>

(***************************************************************************)
(*        The remote calls of one cycle: MonitorUser and its fetches       *)
(***************************************************************************)

\* config.DefaultConfig().Retry.MaxRetries
DefaultMaxRetries == 3

\* config.DefaultConfig().Retry
DefaultRetry ==
    [MaxRetries |-> DefaultMaxRetries, InitialDelay |-> InitialDelay,
     MaxDelay |-> MaxDelay, BackoffMultiplier |-> BackoffMultiplier,
     RetryOnRateLimit |-> TRUE, RateLimitBuffer |-> RateLimitBuffer]

\* Pages a fetch reads at most.
MaxListCalls == 2

\* What APIClient.ValidateUser returns when Users.Get fails: UserNotFoundError
\* for a 404, else "failed to validate user: " and the text of the client's
\* error, here a rate-limit answer and a timeout.
ValidateUserErrors ==
    {PlainError({"user not found"}),
     PlainError({"rate limit", "403 forbidden"}),
     PlainError({"timeout"})}

NoSurfaced == [op |-> "none", err |-> NoErr, calls |-> 0]

CallInit ==
    /\ remotePc = "validate"
    /\ listsLeft \in 1..MaxListCalls
    /\ validateCalls = 0
    /\ surfaced = NoSurfaced
    /\ retryCfg = DefaultRetry
    /\ retryPc = "done"
    /\ attempt = 0
    /\ lastErr = NoErr
    /\ opCalls = 0
    /\ delay = 0
    /\ ctxDone = FALSE
    /\ retryResult = "none"
    /\ opErrs = {}
    /\ cancelAt = -1

CallIdle ==
    /\ remotePc = "done"
    /\ listsLeft = 0
    /\ validateCalls = 0
    /\ surfaced = NoSurfaced

\* s.githubClient.ValidateUser(ctx, username): one call, and its error is
\* returned as "user validation failed".
CallValidateUser ==
    /\ remotePc = "validate"
    /\ validateCalls' = validateCalls + 1
    /\ \E err \in {NoErr} \cup ValidateUserErrors :
        IF err = NoErr
        THEN /\ remotePc' = "list"
             /\ surfaced' = surfaced
        ELSE /\ remotePc' = "done"
             /\ surfaced' = [op |-> "ValidateUser", err |-> err,
                             calls |-> validateCalls + 1]
    /\ UNCHANGED <<listsLeft, retryVars>>

\* s.retryManager.ExecuteWithRetry(ctx, func() error {...}) is called for the
\* next page of the list.
EnterExecuteWithRetry ==
    /\ remotePc = "list"
    /\ remotePc' = "retrying"
    /\ retryPc' = "check"
    /\ attempt' = 0
    /\ lastErr' = NoErr
    /\ opCalls' = 0
    /\ delay' = 0
    /\ retryResult' = "none"
    /\ opErrs' = {}
    /\ UNCHANGED <<retryCfg, ctxDone, cancelAt, listsLeft, validateCalls, surfaced>>

\* ExecuteWithRetry returns: the next page, the end of the list, or the
\* error, which the fetch and MonitorUser return.
ExecuteWithRetryReturns ==
    /\ remotePc = "retrying"
    /\ retryPc = "done"
    /\ IF retryResult = "ok"
       THEN /\ listsLeft' = listsLeft - 1
            /\ remotePc' = IF listsLeft > 1 THEN "list" ELSE "done"
            /\ surfaced' = surfaced
       ELSE /\ listsLeft' = listsLeft
            /\ remotePc' = "done"
            /\ surfaced' = [op |-> "GetStarredRepositories", err |-> lastErr,
                            calls |-> opCalls]
    /\ UNCHANGED <<validateCalls, retryVars>>

\* A step of the executor while MonitorUser waits for it.
InsideExecutor == remotePc = "retrying" /\ UNCHANGED callVars

(***************************************************************************)
(*          The fetch strategy: fetchStarredReposWithFallback              *)
(***************************************************************************)

\* A timestamp of the state file, and the moments at which the cycle runs:
\* soon after it, at the end of the default full-sync interval, and after it.
PlanStamp == TimestampTolerance + 1

PlanNows ==
    {PlanStamp + 1, PlanStamp + 24 * MinutesPerHour,
     PlanStamp + 24 * MinutesPerHour + 1}

\* The state files of the model: written by this program, by a version of
\* it without the incremental fields (they decode as false, 0 and the zero
\* time), or with incremental fetching switched off for the user in the file.
PersistedStates ==
    {[NewUserState(Username) EXCEPT
        !.LastCheck = PlanStamp,
        !.CheckCount = 1,
        !.Repositories = IF s = 0 THEN <<>> ELSE <<Repository(1, s, MetaBase)>>,
        !.TotalCount = IF s = 0 THEN 0 ELSE 1,
        !.IncrementalEnabled = e,
        !.FullSyncInterval = i,
        !.LastStarredAt = s,
        !.LastFullSyncAt = f] :
        e \in BOOLEAN, i \in {0, NewUserState(Username).FullSyncInterval},
        s \in {0, PlanStamp}, f \in {0, PlanStamp}}

\* The file system that holds the state file.
PlanFiles ==
    [p \in StorePaths |->
        IF p = StoreFile THEN FileOf(JSONEncode(planFile)) ELSE NoFile]

PlanInit ==
    /\ planCfg \in CycleConfigs
    /\ planFile \in PersistedStates
    /\ planNow \in PlanNows
    /\ planPrev = NoState
    /\ planPath = "none"
    /\ planPc = "load"

PlanIdle ==
    /\ planCfg = DefaultIncremental
    /\ planFile = NoState
    /\ planNow = 0
    /\ planPrev = NoState
    /\ planPath = "none"
    /\ planPc = "done"

\* previousState, err := s.loadPreviousState(stateFilePath, username)
PlanLoad ==
    /\ planPc = "load"
    /\ planPrev' = loadPreviousState(PlanFiles, StoreFile, Username, planNow).state
    /\ planPc' = "choose"
    /\ UNCHANGED <<planCfg, planFile, planNow, planPath>>

\* The guard of fetchStarredReposWithFallback picks the fetch.
PlanChoose ==
    /\ planPc = "choose"
    /\ planPath' = IF UsesIncremental(planCfg, planPrev, planNow)
                   THEN "incremental"
                   ELSE "full"
    /\ planPc' = "done"
    /\ UNCHANGED <<planCfg, planFile, planNow, planPrev>>

(***************************************************************************)
(*          Two SaveUserState calls on one path (JSONStorage)              *)
(***************************************************************************)

\* The goroutines that call SaveUserState(StoreFile, ...) at the same time.
Savers == {1, 2}

\* Inode numbers of the directory that holds the state file.
MaxInodes == 5

Inodes == 1..MaxInodes

\* The valid states the callers save.
ConcStates ==
    { [NewUserState("alice") EXCEPT !.CheckCount = n, !.LastCheck = 1] : n \in 1..2 }

NotCalled == [pc |-> "idle", arg |-> NewUserState("alice"), fd |-> 0,
              ret |-> "none", left |-> [err |-> "none"]]

\* What os.Stat and os.ReadFile see: the files the directory entries name.
FilesSeen(dir, ino) ==
    [p \in StorePaths |-> IF dir[p] = 0 THEN NoFile ELSE FileOf(ino[dir[p]])]

\* An inode no directory entry and no open file refers to.
FreeInode(dir, sv) ==
    CHOOSE i \in Inodes :
        /\ \A p \in StorePaths : dir[p] # i
        /\ \A q \in Savers : sv[q].fd # i
        /\ \A j \in Inodes :
              ((\A p \in StorePaths : dir[p] # j) /\ (\A q \in Savers : sv[q].fd # j))
                  => i <= j

\* os.Write at offset 0 of an open file: the bytes replace the ones at their
\* positions and whatever lay behind them stays.
WriteAtStart(old, bytes) ==
    IF Len(old) > Len(bytes)
    THEN bytes \o SubSeq(old, Len(bytes) + 1, Len(old))
    ELSE bytes

ConcInit ==
    /\ \E had \in BOOLEAN :
        /\ dirents = [p \in StorePaths |-> IF had /\ p = StoreFile THEN 1 ELSE 0]
        /\ inodes = [i \in Inodes |->
                        IF had /\ i = 1 THEN JSONEncode(NewUserState("alice")) ELSE <<>>]
    /\ saver = [p \in Savers |-> NotCalled]

ConcIdle ==
    /\ dirents = [p \in StorePaths |-> 0]
    /\ inodes = [i \in Inodes |-> <<>>]
    /\ saver = [p \in Savers |-> [NotCalled EXCEPT !.pc = "done"]]

\* SaveUserState(StoreFile, u) is called: Validate and os.MkdirAll pass.
ConcCall(p) ==
    /\ saver[p].pc = "idle"
    /\ \E u \in ConcStates :
        /\ UserStateValidate(u, clock)
        /\ saver' = [saver EXCEPT ![p].arg = u, ![p].pc = "backup"]
    /\ UNCHANGED <<dirents, inodes>>

\* os.Stat(filePath) and copyFile(filePath, backupPath).
ConcBackup(p) ==
    /\ saver[p].pc = "backup"
    /\ IF dirents[StoreFile] = 0
       THEN UNCHANGED <<dirents, inodes>>
       ELSE LET bak == IF dirents[BackupPath(StoreFile)] = 0
                       THEN FreeInode(dirents, saver)
                       ELSE dirents[BackupPath(StoreFile)]
            IN  /\ dirents' = [dirents EXCEPT ![BackupPath(StoreFile)] = bak]
                /\ inodes' = [inodes EXCEPT ![bak] = inodes[dirents[StoreFile]]]
    /\ saver' = [saver EXCEPT ![p].pc = "create"]

\* os.Create(tempFile): a new file, or the file of that name cut to length 0.
ConcCreate(p) ==
    /\ saver[p].pc = "create"
    /\ LET tmp == IF dirents[TempFile(StoreFile)] = 0
                  THEN FreeInode(dirents, saver)
                  ELSE dirents[TempFile(StoreFile)]
       IN  /\ dirents' = [dirents EXCEPT ![TempFile(StoreFile)] = tmp]
           /\ inodes' = [inodes EXCEPT ![tmp] = <<>>]
           /\ saver' = [saver EXCEPT ![p].fd = tmp, ![p].pc = "encode"]

\* encoder.Encode(state) writes the document to the open file; file.Close().
ConcEncode(p) ==
    /\ saver[p].pc = "encode"
    /\ inodes' = [inodes EXCEPT ![saver[p].fd] =
                    WriteAtStart(inodes[saver[p].fd], JSONEncode(saver[p].arg))]
    /\ saver' = [saver EXCEPT ![p].fd = 0, ![p].pc = "rename"]
    /\ UNCHANGED dirents

\* os.Rename(tempFile, filePath): fails when there is no file of that name.
ConcRename(p) ==
    /\ saver[p].pc = "rename"
    /\ IF dirents[TempFile(StoreFile)] = 0
       THEN /\ saver' = [saver EXCEPT ![p].ret = "failed to rename temp file",
                                      ![p].pc = "deferred"]
            /\ UNCHANGED dirents
       ELSE /\ dirents' = [dirents EXCEPT ![StoreFile] = dirents[TempFile(StoreFile)],
                                          ![TempFile(StoreFile)] = 0]
            /\ saver' = [saver EXCEPT ![p].ret = "nil", ![p].pc = "deferred"]
    /\ UNCHANGED inodes

\* The deferred function removes the file named tempFile if there is one;
\* then SaveUserState returns. left is what a load finds at that moment.
ConcReturn(p) ==
    /\ saver[p].pc = "deferred"
    /\ dirents' = [dirents EXCEPT ![TempFile(StoreFile)] = 0]
    /\ saver' = [saver EXCEPT
                    ![p].pc = "done",
                    ![p].left = LoadUserState(FilesSeen(dirents', inodes),
                                              StoreFile, clock)]
    /\ UNCHANGED inodes

(***************************************************************************)
(*     The fetch of one cycle, call by call: incremental, then fallback    *)
(***************************************************************************)

\* The state an earlier run left in the state file: one repository, full
\* sync done at PlanStamp.
FetchPrevious ==
    [NewUserState(Username) EXCEPT
        !.LastCheck = PlanStamp,
        !.CheckCount = 1,
        !.Repositories = <<Repository(1, PlanStamp, MetaBase)>>,
        !.TotalCount = 1,
        !.LastStarredAt = PlanStamp,
        !.LastFullSyncAt = PlanStamp]

FetchFiles ==
    [p \in StorePaths |->
        IF p = StoreFile THEN FileOf(JSONEncode(FetchPrevious)) ELSE NoFile]

NoListCalls == [incremental |-> 0, full |-> 0]

\* MonitorUser has validated the user and loaded the previous state, and
\* fetchStarredReposWithFallback has chosen the incremental fetch.
FallbackInit ==
    /\ fetchPc = "incremental"
    /\ fetchCfg \in {DefaultIncremental,
                     [DefaultIncremental EXCEPT !.FallbackOnError = FALSE]}
    /\ pagesToRead \in 1..MaxListCalls
    /\ listCalls = NoListCalls
    /\ listOutcomes = {}
    /\ fetchedFull = FALSE
    /\ fetchRet = "none"
    /\ cancelledIn = "none"
    /\ retryCfg \in {[DefaultRetry EXCEPT !.MaxRetries = m] : m \in 0..MaxRetriesBound}
    /\ retryPc = "done"
    /\ attempt = 0
    /\ lastErr = NoErr
    /\ opCalls = 0
    /\ delay = 0
    /\ ctxDone = FALSE
    /\ retryResult = "none"
    /\ opErrs = {}
    /\ cancelAt = -1
    /\ clock = PlanStamp + 1
    /\ files = FetchFiles
    /\ savePc = "idle"
    /\ saveArg = NewUserState("alice")
    /\ saveRet = "none"
    /\ savesLeft = 0
    /\ atStart = [err |-> "StateFileNotFoundError"]
    /\ loadRet = [err |-> "none"]

FallbackIdle ==
    /\ fetchPc = "done"
    /\ fetchCfg = DefaultIncremental
    /\ pagesToRead = 0
    /\ listCalls = NoListCalls
    /\ listOutcomes = {}
    /\ fetchedFull = FALSE
    /\ fetchRet = "none"
    /\ cancelledIn = "none"

\* The fetch that is in progress.
FetchInProgress ==
    IF fetchPc \in {"incremental", "incrementalRetrying"} THEN "incremental"
    ELSE IF fetchPc \in {"full", "fullRetrying"} THEN "full"
    ELSE "none"

\* The loop of fetchStarredReposIncremental or of fetchAllStarredRepos calls
\* s.retryManager.ExecuteWithRetry for the next page.
FetchCallsExecutor ==
    /\ fetchPc \in {"incremental", "full"}
    /\ fetchPc' = IF fetchPc = "incremental" THEN "incrementalRetrying"
                  ELSE "fullRetrying"
    /\ retryPc' = "check"
    /\ attempt' = 0
    /\ lastErr' = NoErr
    /\ opCalls' = 0
    /\ delay' = 0
    /\ retryResult' = "none"
    /\ opErrs' = {}
    /\ UNCHANGED <<retryCfg, ctxDone, cancelAt, fetchCfg, pagesToRead, listCalls,
                   listOutcomes, fetchedFull, fetchRet, cancelledIn, storeVars>>

\* A step of the executor while the fetch waits for it.
InsideFetch ==
    /\ fetchPc \in {"incrementalRetrying", "fullRetrying"}
    /\ UNCHANGED <<fallbackVars, storeVars>>

\* ExecuteWithRetry returns to fetchStarredReposIncremental: the next page,
\* the end of the fetch, or the error; fetchStarredReposWithFallback then
\* falls back to the full sync or returns, and MonitorUser returns its error.
IncrementalExecutorReturns ==
    /\ fetchPc = "incrementalRetrying"
    /\ retryPc = "done"
    /\ listCalls' = [listCalls EXCEPT !.incremental = @ + opCalls]
    /\ listOutcomes' = listOutcomes \cup opErrs
    /\ IF retryResult = "ok"
       THEN /\ pagesToRead' = pagesToRead - 1
            /\ fetchPc' = IF pagesToRead > 1 THEN "incremental" ELSE "finish"
            /\ UNCHANGED <<fetchedFull, fetchRet>>
       ELSE IF FallsBack(fetchCfg)
       THEN /\ \E n \in 1..MaxListCalls : pagesToRead' = n
            /\ fetchPc' = "full"
            /\ fetchedFull' = TRUE
            /\ UNCHANGED fetchRet
       ELSE /\ fetchPc' = "done"
            /\ fetchRet' = "failed to fetch repositories"
            /\ UNCHANGED <<pagesToRead, fetchedFull>>
    /\ UNCHANGED <<fetchCfg, cancelledIn, retryVars, storeVars>>

\* ExecuteWithRetry returns to fetchAllStarredRepos.
FullExecutorReturns ==
    /\ fetchPc = "fullRetrying"
    /\ retryPc = "done"
    /\ listCalls' = [listCalls EXCEPT !.full = @ + opCalls]
    /\ listOutcomes' = listOutcomes \cup opErrs
    /\ IF retryResult = "ok"
       THEN /\ pagesToRead' = pagesToRead - 1
            /\ fetchPc' = IF pagesToRead > 1 THEN "full" ELSE "finish"
            /\ UNCHANGED fetchRet
       ELSE /\ fetchPc' = "done"
            /\ fetchRet' = "failed to fetch repositories"
            /\ UNCHANGED pagesToRead
    /\ UNCHANGED <<fetchCfg, fetchedFull, cancelledIn, retryVars, storeVars>>

\* The caller's context is cancelled while MonitorUser runs.
CancelDuringCycle ==
    /\ fetchPc # "done"
    /\ ~ctxDone
    /\ ctxDone' = TRUE
    /\ cancelAt' = IF retryPc = "wait" THEN opCalls ELSE cancelAt
    /\ cancelledIn' = FetchInProgress
    /\ UNCHANGED <<retryCfg, retryPc, attempt, lastErr, opCalls, delay, retryResult,
                   opErrs, fetchPc, fetchCfg, pagesToRead, listCalls, listOutcomes,
                   fetchedFull, fetchRet, storeVars>>

\* MonitorUser after a fetch that succeeded: the remote list is what the
\* previous state holds; the updated state is saved.
FetchedThenSaved ==
    /\ fetchPc = "finish"
    /\ LET prev == loadPreviousState(files, StoreFile, Username, clock).state
           current == prev.Repositories
           changes == findRepositoryChanges(fetchCfg, prev.Repositories, current)
           updated == UpdatedState(Username, prev, current, changes, fetchedFull,
                                   0, clock)
       IN  \E ioOk \in BOOLEAN :
             LET saved == SaveUserState(files, StoreFile, updated, clock, ioOk)
             IN  /\ files' = saved.fs
                 /\ fetchRet' = IF saved.err = "nil" THEN "nil"
                                ELSE "failed to save state"
    /\ fetchPc' = "done"
    /\ UNCHANGED <<fetchCfg, pagesToRead, listCalls, listOutcomes, fetchedFull,
                   cancelledIn, retryVars, clock, saveVars>>

(***************************************************************************)
(*                    The spinner: SpinnerProgress                         *)
(***************************************************************************)

\* len(sp.spinner)
SpinnerFrames == 10

\* NewSpinnerProgress has returned: the goroutine running spin exists and has
\* not run yet, nobody has called Stop.
SpinInit ==
    /\ spinPc = "start"
    /\ stopPc = "idle"
    /\ running = FALSE
    /\ mu = "free"
    /\ index = 0

SpinIdle ==
    /\ spinPc = "returned"
    /\ stopPc = "returned"
    /\ running = FALSE
    /\ mu = "free"
    /\ index = 0

\* spin: sp.mu.Lock()
SpinLock ==
    /\ spinPc = "start"
    /\ mu = "free"
    /\ mu' = "spin"
    /\ spinPc' = "setRunning"
    /\ UNCHANGED <<stopPc, running, index>>

\* spin: sp.running = true; sp.mu.Unlock()
SpinSetRunning ==
    /\ spinPc = "setRunning"
    /\ running' = TRUE
    /\ mu' = "free"
    /\ spinPc' = "select"
    /\ UNCHANGED <<stopPc, index>>

\* select: case <-ticker.C
SpinTick ==
    /\ spinPc = "select"
    /\ spinPc' = "tick"
    /\ UNCHANGED <<stopPc, running, mu, index>>

\* select: case <-sp.stopChan, together with the send of Stop on the
\* unbuffered channel; spin returns.
SpinReceiveStop ==
    /\ spinPc = "select"
    /\ stopPc = "send"
    /\ spinPc' = "returned"
    /\ stopPc' = "unlock"
    /\ UNCHANGED <<running, mu, index>>

\* The ticker case: sp.mu.Lock()
SpinTickLock ==
    /\ spinPc = "tick"
    /\ mu = "free"
    /\ mu' = "spin"
    /\ spinPc' = "print"
    /\ UNCHANGED <<stopPc, running, index>>

\* The ticker case: the frame is printed if sp.running; sp.mu.Unlock()
SpinPrint ==
    /\ spinPc = "print"
    /\ index' = IF running THEN (index + 1) % SpinnerFrames ELSE index
    /\ mu' = "free"
    /\ spinPc' = "select"
    /\ UNCHANGED <<stopPc, running>>

\* The owner of the spinner calls sp.Stop().
StopCall ==
    /\ stopPc = "idle"
    /\ stopPc' = "lock"
    /\ UNCHANGED <<spinPc, running, mu, index>>

\* Stop: sp.mu.Lock()
StopLock ==
    /\ stopPc = "lock"
    /\ mu = "free"
    /\ mu' = "stop"
    /\ stopPc' = "check"
    /\ UNCHANGED <<spinPc, running, index>>

\* Stop: if sp.running { sp.running = false; then the send on sp.stopChan }
StopCheck ==
    /\ stopPc = "check"
    /\ IF running
       THEN running' = FALSE /\ stopPc' = "send"
       ELSE running' = running /\ stopPc' = "unlock"
    /\ UNCHANGED <<spinPc, mu, index>>

\* Stop returns: the deferred sp.mu.Unlock()
StopUnlock ==
    /\ stopPc = "unlock"
    /\ mu' = "free"
    /\ stopPc' = "returned"
    /\ UNCHANGED <<spinPc, running, index>>

(***************************************************************************)
(*     Commands run one after another: monitor <user> [--state-file f]     *)
(***************************************************************************)

\* Commands in one behaviour.
MaxCommands == 3

\* The users the commands are run for.
OwnerUsers == DOMAIN StateFileName

\* The values of the --state-file flag: not set, or one path.
StateFileFlags == {"", "custom.json"}

\* The state files the commands can name, with their temporary and backup
\* files.
OwnerPaths ==
    UNION {{getStateFilePath(f, u), TempFile(getStateFilePath(f, u)),
            BackupPath(getStateFilePath(f, u))} : f \in StateFileFlags, u \in OwnerUsers}

\* What each user has starred on GitHub.
StarsOf(u) ==
    IF u = "alice" THEN {Repository(1, 1, MetaBase)} ELSE {Repository(2, 1, MetaBase)}

OwnerInit ==
    /\ cmdPc = "idle"
    /\ cmdUsername = "alice"
    /\ cmdStateFile = ""
    /\ cmdsLeft = MaxCommands
    /\ cmdPrevious = NoState
    /\ clock = 2
    /\ files = [p \in OwnerPaths |-> NoFile]
    /\ savePc = "idle"
    /\ saveArg = NewUserState("alice")
    /\ saveRet = "none"
    /\ savesLeft = 0
    /\ atStart = [err |-> "StateFileNotFoundError"]
    /\ loadRet = [err |-> "none"]

OwnerIdle ==
    /\ cmdPc = "idle"
    /\ cmdUsername = "alice"
    /\ cmdStateFile = ""
    /\ cmdsLeft = 0
    /\ cmdPrevious = NoState

\* runSingleUserMonitor(ctx, username): the command is run for a user, with
\* or without the flag, a minute after the command before it.
CommandStarts ==
    /\ cmdPc = "idle"
    /\ cmdsLeft > 0
    /\ cmdsLeft' = cmdsLeft - 1
    /\ cmdUsername' \in OwnerUsers
    /\ cmdStateFile' \in StateFileFlags
    /\ cmdPc' = "load"
    /\ clock' = clock + 1
    /\ UNCHANGED <<files, saveVars, cmdPrevious>>

\* MonitorUser: previousState, err := s.loadPreviousState(stateFilePath,
\* username), the path being getStateFilePath(username).
CommandLoads ==
    /\ cmdPc = "load"
    /\ cmdPrevious' = loadPreviousState(files, getStateFilePath(cmdStateFile, cmdUsername),
                                        cmdUsername, clock).state
    /\ cmdPc' = "save"
    /\ UNCHANGED <<clock, files, saveVars, cmdUsername, cmdStateFile, cmdsLeft>>

\* What the fetch of the cycle returns for a list of one page.
CommandFetched ==
    IF UsesIncremental(DefaultIncremental, cmdPrevious, clock)
    THEN mergeRepositories(cmdPrevious.Repositories,
            ProcessPage(DefaultIncremental,
                        GetStarredRepositories(StarsOf(cmdUsername), 1).Repositories,
                        1, cmdPrevious.LastStarredAt, <<>>).new)
    ELSE RemoteList(StarsOf(cmdUsername))

\* MonitorUser from the fetch on: the changes against previousState, the
\* updated state, SaveUserState to the same path.
CommandSaves ==
    /\ cmdPc = "save"
    /\ LET current == CommandFetched
           changes == findRepositoryChanges(DefaultIncremental, cmdPrevious.Repositories,
                                            current)
           updated == UpdatedState(cmdUsername, cmdPrevious, current, changes,
                         ~UsesIncremental(DefaultIncremental, cmdPrevious, clock), 0, clock)
       IN  \E ioOk \in BOOLEAN :
             files' = SaveUserState(files, getStateFilePath(cmdStateFile, cmdUsername),
                                    updated, clock, ioOk).fs
    /\ cmdPc' = "idle"
    /\ UNCHANGED <<clock, saveVars, cmdUsername, cmdStateFile, cmdsLeft, cmdPrevious>>

(***************************************************************************)
(*                            Specifications                               *)
(***************************************************************************)

InitRetry ==
    RetryInit /\ DiffIdle /\ StoreIdle /\ CycleIdle /\ MultiIdle /\ CallIdle /\ PlanIdle
        /\ ConcIdle /\ FallbackIdle /\ SpinIdle /\ OwnerIdle

RetryOnly ==
    UNCHANGED <<diffVars, storeVars, cycleVars, multiVars, callVars, planVars, concVars,
               fallbackVars, spinVars, ownerVars>>

NextRetry ==
    \/ RetryCheckCtx /\ RetryOnly
    \/ RetryCallSucceeds /\ RetryOnly
    \/ RetryCallFails /\ RetryOnly
    \/ RetryWaitElapsed /\ RetryOnly
    \/ RetryWaitCancelled /\ RetryOnly
    \/ CancelContext /\ RetryOnly

SpecRetry == InitRetry /\ [][NextRetry]_vars

InitDiff ==
    DiffInit /\ RetryIdle /\ StoreIdle /\ CycleIdle /\ MultiIdle /\ CallIdle /\ PlanIdle
        /\ ConcIdle /\ FallbackIdle /\ SpinIdle /\ OwnerIdle

DiffOnly ==
    UNCHANGED <<retryVars, storeVars, cycleVars, multiVars, callVars, planVars, concVars,
               fallbackVars, spinVars, ownerVars>>

NextDiff == FindChanges /\ DiffOnly

SpecDiff == InitDiff /\ [][NextDiff]_vars

InitStore ==
    StoreInit /\ RetryIdle /\ DiffIdle /\ CycleIdle /\ MultiIdle /\ CallIdle /\ PlanIdle
        /\ ConcIdle /\ FallbackIdle /\ SpinIdle /\ OwnerIdle

StoreOnly ==
    UNCHANGED <<retryVars, diffVars, cycleVars, multiVars, callVars, planVars, concVars,
               fallbackVars, spinVars, ownerVars>>

NextStore ==
    \/ SaveCall /\ StoreOnly
    \/ SaveValidate /\ StoreOnly
    \/ SaveMkdir /\ StoreOnly
    \/ SaveBackup /\ StoreOnly
    \/ SaveCreate /\ StoreOnly
    \/ SaveEncode /\ StoreOnly
    \/ SaveClose /\ StoreOnly
    \/ SaveRename /\ StoreOnly
    \/ SaveDeferred /\ StoreOnly
    \/ SaveInterrupted /\ StoreOnly
    \/ LoadCall /\ StoreOnly

SpecStore == InitStore /\ [][NextStore]_vars

\* The single-user command, run again and again against one state file.
Init ==
    CycleInit /\ RetryIdle /\ DiffIdle /\ StoreIdle /\ MultiIdle /\ CallIdle /\ PlanIdle
        /\ ConcIdle /\ FallbackIdle /\ SpinIdle /\ OwnerIdle

CycleOnly == UNCHANGED <<retryVars, diffVars, saveVars, multiVars, callVars, planVars, concVars,
               fallbackVars, spinVars, ownerVars>>

Next ==
    \/ Star /\ CycleOnly
    \/ Unstar /\ CycleOnly
    \/ RepoUpdated /\ CycleOnly
    \/ CorruptStateFile /\ CycleOnly
    \/ CycleStart /\ CycleOnly
    \/ ValidateUser /\ CycleOnly
    \/ LoadPrevious /\ CycleOnly
    \/ IncrementalPage /\ CycleOnly
    \/ IncrementalFetchFails /\ CycleOnly
    \/ FullPage /\ CycleOnly
    \/ FullFetchFails /\ CycleOnly
    \/ Finish /\ CycleOnly
    \/ Exit /\ CycleOnly

Spec == Init /\ [][Next]_vars

\* The same command, run once more under the default configuration.
InitThreeRuns ==
    ThreeRunsInit /\ RetryIdle /\ DiffIdle /\ StoreIdle /\ MultiIdle /\ CallIdle /\ PlanIdle
        /\ ConcIdle /\ FallbackIdle /\ SpinIdle /\ OwnerIdle

SpecThreeRuns == InitThreeRuns /\ [][Next]_vars

\* The same command for a user who has stars before the first run.
InitStarred ==
    StarredInit /\ RetryIdle /\ DiffIdle /\ StoreIdle /\ MultiIdle /\ CallIdle /\ PlanIdle
        /\ ConcIdle /\ FallbackIdle /\ SpinIdle /\ OwnerIdle

SpecStarred == InitStarred /\ [][Next]_vars

\* The same command for a user whose list has more than one page.
InitPaged ==
    PagedInit /\ RetryIdle /\ DiffIdle /\ StoreIdle /\ MultiIdle /\ CallIdle /\ PlanIdle
        /\ ConcIdle /\ FallbackIdle /\ SpinIdle /\ OwnerIdle

SpecPaged == InitPaged /\ [][Next]_vars

\* The command run on a schedule, every run of which succeeds.  The runs keep
\* coming: a step of the cycle that can be taken is taken.  The user is under
\* no such obligation.
InitScheduled ==
    ScheduledInit /\ RetryIdle /\ DiffIdle /\ StoreIdle /\ MultiIdle /\ CallIdle /\ PlanIdle
        /\ ConcIdle /\ FallbackIdle /\ SpinIdle /\ OwnerIdle

\* The steps of a cycle in which every remote call and the save succeed.
ValidateUserSucceeds == ValidateUser /\ validateErr' = "nil"

FinishSucceeds == Finish /\ monitorRet'.err = "nil"

ScheduledCycle ==
    \/ ScheduledStart /\ CycleOnly
    \/ ValidateUserSucceeds /\ CycleOnly
    \/ LoadPrevious /\ CycleOnly
    \/ IncrementalPage /\ CycleOnly
    \/ FullPage /\ CycleOnly
    \/ FinishSucceeds /\ CycleOnly
    \/ Exit /\ CycleOnly

NextScheduled ==
    \/ StarInTime /\ CycleOnly
    \/ Unstar /\ CycleOnly
    \/ ScheduledCycle

\* The cycle can take a step: a run is in progress, or the schedule has a run
\* left to start. In a run every step is enabled, each call being one that
\* succeeds.
CycleCanStep == cyclePc # "idle" \/ runsLeft > 0

\* CycleCanStep is ENABLED <<ScheduledCycle>>_vars, state by state.
CycleCanStepIsEnabled == CycleCanStep <=> ENABLED <<ScheduledCycle>>_vars

\* The scheduler starts the command again and again and a started command runs
\* to its end: weak fairness of the cycle's steps. WF_vars(ScheduledCycle) is
\* written out by its definition,
\*     []<>(~ENABLED <<ScheduledCycle>>_vars) \/ []<><<ScheduledCycle>>_vars,
\* with CycleCanStep for the ENABLED formula.
CycleRunsOn == []<>(~CycleCanStep) \/ []<><<ScheduledCycle>>_vars

SpecScheduled == InitScheduled /\ [][NextScheduled]_vars /\ CycleRunsOn

\* The same schedule without fairness, and with the fairness condition as WF.
SpecScheduledSteps == InitScheduled /\ [][NextScheduled]_vars

SpecScheduledWF == InitScheduled /\ [][NextScheduled]_vars /\ WF_vars(ScheduledCycle)

\* One invocation of the monitor command.
InitMulti ==
    MultiInit /\ RetryIdle /\ DiffIdle /\ StoreIdle /\ CycleIdle /\ CallIdle /\ PlanIdle
        /\ ConcIdle /\ FallbackIdle /\ SpinIdle /\ OwnerIdle

MultiOnly ==
    UNCHANGED <<retryVars, diffVars, storeVars, cycleVars, callVars, planVars, concVars,
               fallbackVars, spinVars, ownerVars>>

NextMulti ==
    \/ ParseUsernames /\ MultiOnly
    \/ StartCycle /\ MultiOnly
    \/ GetToken /\ MultiOnly
    \/ ValidateUserCall /\ MultiOnly
    \/ LoadStateFile /\ MultiOnly
    \/ FetchCall /\ MultiOnly
    \/ SaveStateFile /\ MultiOnly
    \/ RecordResult /\ MultiOnly
    \/ CommandReturns /\ MultiOnly

SpecMulti == InitMulti /\ [][NextMulti]_vars

\* The remote calls of one cycle under the default retry configuration.
InitCalls ==
    CallInit /\ DiffIdle /\ StoreIdle /\ CycleIdle /\ MultiIdle /\ PlanIdle
        /\ ConcIdle /\ FallbackIdle /\ SpinIdle /\ OwnerIdle

CallsOnly == UNCHANGED <<diffVars, storeVars, cycleVars, multiVars, planVars, concVars,
               fallbackVars, spinVars, ownerVars>>

NextCalls ==
    \/ CallValidateUser /\ CallsOnly
    \/ EnterExecuteWithRetry /\ CallsOnly
    \/ RetryCheckCtx /\ InsideExecutor /\ CallsOnly
    \/ RetryCallSucceeds /\ InsideExecutor /\ CallsOnly
    \/ RetryCallFails /\ InsideExecutor /\ CallsOnly
    \/ RetryWaitElapsed /\ InsideExecutor /\ CallsOnly
    \/ ExecuteWithRetryReturns /\ CallsOnly

SpecCalls == InitCalls /\ [][NextCalls]_vars

\* The choice of the fetch for one state file, configuration and moment.
InitPlan ==
    PlanInit /\ RetryIdle /\ DiffIdle /\ StoreIdle /\ CycleIdle /\ MultiIdle /\ CallIdle
        /\ ConcIdle /\ FallbackIdle /\ SpinIdle /\ OwnerIdle

PlanOnly ==
    UNCHANGED <<retryVars, diffVars, storeVars, cycleVars, multiVars, callVars, concVars,
               fallbackVars, spinVars, ownerVars>>

NextPlan ==
    \/ PlanLoad /\ PlanOnly
    \/ PlanChoose /\ PlanOnly

SpecPlan == InitPlan /\ [][NextPlan]_vars

\* One cycle from its fetch on, with the retry executor and cancellation.
InitFallback ==
    FallbackInit /\ DiffIdle /\ CycleIdle /\ MultiIdle /\ CallIdle /\ PlanIdle
        /\ ConcIdle /\ SpinIdle /\ OwnerIdle

FallbackOnly ==
    UNCHANGED <<diffVars, cycleVars, multiVars, callVars, planVars, concVars, spinVars,
               ownerVars>>

NextFallback ==
    \/ FetchCallsExecutor /\ FallbackOnly
    \/ RetryCheckCtx /\ InsideFetch /\ FallbackOnly
    \/ RetryCallSucceeds /\ InsideFetch /\ FallbackOnly
    \/ RetryCallFails /\ InsideFetch /\ FallbackOnly
    \/ RetryWaitElapsed /\ InsideFetch /\ FallbackOnly
    \/ RetryWaitCancelled /\ InsideFetch /\ FallbackOnly
    \/ IncrementalExecutorReturns /\ FallbackOnly
    \/ FullExecutorReturns /\ FallbackOnly
    \/ CancelDuringCycle /\ FallbackOnly
    \/ FetchedThenSaved /\ FallbackOnly

SpecFallback == InitFallback /\ [][NextFallback]_vars

\* A spinner and one call of Stop.
InitSpinner ==
    SpinInit /\ RetryIdle /\ DiffIdle /\ StoreIdle /\ CycleIdle /\ MultiIdle /\ CallIdle
        /\ PlanIdle /\ ConcIdle /\ FallbackIdle /\ OwnerIdle

SpinOnly ==
    UNCHANGED <<retryVars, diffVars, storeVars, cycleVars, multiVars, callVars,
                planVars, concVars, fallbackVars, ownerVars>>

NextSpinner ==
    \/ SpinLock /\ SpinOnly
    \/ SpinSetRunning /\ SpinOnly
    \/ SpinTick /\ SpinOnly
    \/ SpinReceiveStop /\ SpinOnly
    \/ SpinTickLock /\ SpinOnly
    \/ SpinPrint /\ SpinOnly
    \/ StopCall /\ SpinOnly
    \/ StopLock /\ SpinOnly
    \/ StopCheck /\ SpinOnly
    \/ StopUnlock /\ SpinOnly

SpecSpinner == InitSpinner /\ [][NextSpinner]_vars

\* The steps of the spinner goroutine and those of the caller of Stop.
SpinnerSteps ==
    (SpinLock \/ SpinSetRunning \/ SpinTick \/ SpinReceiveStop \/ SpinTickLock
        \/ SpinPrint) /\ SpinOnly

StopSteps ==
    (StopCall \/ StopLock \/ StopCheck \/ StopUnlock) /\ SpinOnly

\* The Go scheduler runs every goroutine that can run, the ticker keeps
\* firing, and sync.Mutex hands the lock to a goroutine that keeps waiting
\* for it (starvation mode): each goroutine that can take a step again and
\* again takes one.
SpecSpinnerFair ==
    InitSpinner /\ [][NextSpinner]_vars /\ SF_vars(SpinnerSteps) /\ SF_vars(StopSteps)

\* The single-user command run several times, for one user or another, with
\* or without --state-file.
InitOwner ==
    OwnerInit /\ RetryIdle /\ DiffIdle /\ CycleIdle /\ MultiIdle /\ CallIdle /\ PlanIdle
        /\ ConcIdle /\ FallbackIdle /\ SpinIdle

OwnerOnly ==
    UNCHANGED <<retryVars, diffVars, cycleVars, multiVars, callVars, planVars, concVars,
                fallbackVars, spinVars>>

NextOwner ==
    \/ CommandStarts /\ OwnerOnly
    \/ CommandLoads /\ OwnerOnly
    \/ CommandSaves /\ OwnerOnly

SpecOwner == InitOwner /\ [][NextOwner]_vars

\* Two goroutines save to one state file path.
InitConc ==
    ConcInit /\ RetryIdle /\ DiffIdle /\ StoreIdle /\ CycleIdle /\ MultiIdle /\ CallIdle
        /\ PlanIdle /\ FallbackIdle /\ SpinIdle /\ OwnerIdle

ConcOnly ==
    UNCHANGED <<retryVars, diffVars, storeVars, cycleVars, multiVars, callVars,
                planVars, fallbackVars, spinVars, ownerVars>>

NextConc ==
    \/ (\E p \in Savers : ConcCall(p)) /\ ConcOnly
    \/ (\E p \in Savers : ConcBackup(p)) /\ ConcOnly
    \/ (\E p \in Savers : ConcCreate(p)) /\ ConcOnly
    \/ (\E p \in Savers : ConcEncode(p)) /\ ConcOnly
    \/ (\E p \in Savers : ConcRename(p)) /\ ConcOnly
    \/ (\E p \in Savers : ConcReturn(p)) /\ ConcOnly

SpecConc == InitConc /\ [][NextConc]_vars

\* C6: an operation that fails with a retryable error on every attempt is
\* invoked exactly MaxRetries + 1 times, absent cancellation, before the
\* executor returns its final error.
C6_RetryExhaustion ==
    (retryPc = "done" /\ ~ctxDone /\ opErrs = {"transient"})
        => (opCalls = retryCfg.MaxRetries + 1 /\ retryResult = "exhausted")

C6_Witness ==
    /\ retryPc = "done" /\ ~ctxDone /\ opErrs = {"transient"}
    /\ retryCfg.MaxRetries >= 2
    /\ opCalls = retryCfg.MaxRetries + 1

\* C7: once the context is cancelled during a wait between two attempts, the
\* operation is not invoked again and the executor returns the cancellation
\* error.
C7_CancelDuringWait ==
    cancelAt >= 0 =>
        /\ opCalls = cancelAt
        /\ retryPc \in {"wait", "check", "done"}
        /\ retryPc = "done" => retryResult = "ctxErr"

C7_Witness ==
    /\ cancelAt >= 1
    /\ retryPc = "done"
    /\ retryResult = "ctxErr"
    /\ attempt < retryCfg.MaxRetries

\* The names in each list of a RepositoryChanges.
ListNames(ch) ==
    <<NamesOf(ch.NewStars), NamesOf(ch.Unstars), NamesOf(ch.ReStars), NamesOf(ch.Updated)>>

\* C8: the four lists of the ChangeSet produced by one diff are pairwise
\* disjoint: no repository name appears in more than one of NewStars,
\* Unstars, ReStars and Updated.
C8_ListsDisjoint ==
    dPc = "done" =>
        \A i, j \in 1..4 :
            i # j => ListNames(dChanges)[i] \cap ListNames(dChanges)[j] = {}

\* C9: with re-star detection enabled, a repository in both lists whose
\* starred-at advances by exactly the threshold is in NewStars (and not in
\* ReStars), and one whose starred-at advances by one unit less is in ReStars
\* (and not in NewStars).
C9_ThresholdBoundary ==
    (dPc = "done" /\ diffCfg.DetectReStars) =>
        \A i \in DOMAIN dCurrent :
            dCurrent[i].FullName \in NamesOf(dPrevious) =>
                LET c == dCurrent[i]
                    d == c.StarredAt - MapLookup(dPrevious, c.FullName).StarredAt
                IN  /\ d = reStarThreshold =>
                            /\ c.FullName \in NamesOf(dChanges.NewStars)
                            /\ c.FullName \notin NamesOf(dChanges.ReStars)
                    /\ d = reStarThreshold - 1 =>
                            /\ c.FullName \in NamesOf(dChanges.ReStars)
                            /\ c.FullName \notin NamesOf(dChanges.NewStars)

\* C2: at every point of a save, also one that fails or is interrupted, a
\* load of the path returns the complete state found when the save began or
\* the complete new state, never a corrupted record; a failed save leaves the
\* earlier state, and after a save that returned success the load returns the
\* saved state.
C2_SaveAtomic ==
    LET now == LoadUserState(files, StoreFile, clock)
    IN  /\ now \in {atStart, Loaded(saveArg)}
        /\ now.err # "StateCorruptionError"
        /\ loadRet.err # "StateCorruptionError"
        /\ (savePc = "idle" /\ saveRet = "nil") => now = Loaded(saveArg)
        /\ (savePc \in {"idle", "crashed"} /\ saveRet \notin {"nil", "none", "killed"})
                => now = atStart

C2_Witness ==
    /\ savePc = "crashed"
    /\ atStart.err = "nil"
    /\ atStart.state # saveArg
    /\ files[TempFile(StoreFile)].exists
    /\ Len(files[TempFile(StoreFile)].data) \in 1..(Len(JSONEncode(saveArg)) - 1)
    /\ loadRet = atStart

\* C1: a cycle on the incremental path reports the same NewStars as a full
\* fetch of the same remote list would.  The remote list is the one the cycle
\* saw (it did not change during the cycle), and each of its items either is
\* in the prior state with the same starred-at timestamp or is newer than the
\* tolerance-adjusted threshold LastStarredAt + TimestampTolerance.
C1_IncrementalSameAdded ==
    (/\ cyclePc = "done" /\ monitorRet.err = "nil" /\ ~monitorRet.IsFullSync
     /\ ~starsMoved
     /\ \A r \in stars :
            \/ \E i \in DOMAIN previousState.Repositories :
                    /\ previousState.Repositories[i].FullName = r.FullName
                    /\ previousState.Repositories[i].StarredAt = r.StarredAt
            \/ r.StarredAt > previousState.LastStarredAt + svcCfg.TimestampTolerance)
        => NamesOf(monitorRet.Changes.NewStars)
            = NamesOf(findRepositoryChanges(svcCfg, previousState.Repositories,
                        fetchAllStarredRepos(stars, 1, <<>>)).NewStars)

\* C3: a successful cycle that found no state file and a non-empty remote
\* list reports IsFirstRun, reports no NewStars, and persists every remote
\* item with CheckCount = 1.
C3_FirstRunBaseline ==
    (/\ cyclePc = "done" /\ monitorRet.err = "nil"
     /\ ~filesAtStart[StoreFile].exists
     /\ stars # {} /\ ~starsMoved)
        => /\ monitorRet.IsFirstRun
           /\ monitorRet.Changes.NewStars = <<>>
           /\ LET got == LoadUserState(files, StoreFile, clock)
              IN  /\ got.err = "nil"
                  /\ got.state.CheckCount = 1
                  /\ NamesOf(got.state.Repositories) = {r.FullName : r \in stars}

\* C10: when ValidateUser fails, MonitorUser has returned the validation
\* error and the cycle has made no storage call: the file system is as it was
\* when the cycle began.
C10_ValidationFailureTouchesNothing ==
    (validateErr \notin {"none", "nil"})
        => /\ cyclePc = "done"
           /\ monitorRet = [err |-> "user validation failed"]
           /\ touched = {}
           /\ files = filesAtStart

C10_Witness ==
    /\ validateErr = "user not found"
    /\ cyclePc = "done"
    /\ stars # {}
    /\ \A p \in StorePaths : ~files[p].exists

\* C4: the concurrent cycles of one invocation share no mutable state: no two
\* cycles send their GitHub calls to the same client, and no cycle assigns a
\* field of the service that another cycle assigns or reads.
C4_NoSharedMutableState ==
    \A i \in Cycles : \A j \in Cycles \ {i} :
        /\ clientsUsed[i] \cap clientsUsed[j] = {}
        /\ ~(i \in clientWriters /\ (j \in clientWriters \/ clientsUsed[j] # {}))

\* C5: for every argument and flag combination the command accepts, no two
\* cycles in flight hold the same state file path.
C5_OneCyclePerStateFile ==
    \A i \in Cycles : \A j \in Cycles \ {i} :
        (InFlight(i) /\ InFlight(j) /\ HoldsStateFile(i) /\ HoldsStateFile(j))
            => getStateFilePath(stateFile, usernames[i])
                # getStateFilePath(stateFile, usernames[j])

\* C20: while the executor waits after a rate-limit error whose response
\* indicates a reset time, the delay is that reset delay plus the configured
\* rate-limit buffer.
C20_RateLimitDelay ==
    (/\ retryPc = "wait"
     /\ AsRetryable(lastErr).IsRateLimit
     /\ lastErr.serverReset > 0)
        => delay = lastErr.serverReset + retryCfg.RateLimitBuffer

\* The errors MonitorUser returns when the fetch or the save failed.
FetchOrSaveErrors == {"failed to fetch repositories", "failed to save state"}

\* C11: a cycle that fails while fetching or while persisting returns an
\* error and no result, and the state file on disk is exactly what it was
\* before the cycle began.
C11_FailedCycleKeepsStateFile ==
    (cyclePc = "done" /\ monitorRet.err \in FetchOrSaveErrors) =>
        /\ DOMAIN monitorRet \subseteq {"err", "cause"}
        /\ files[StoreFile] = filesAtStart[StoreFile]

C11_Witness ==
    /\ cyclePc = "done"
    /\ monitorRet.err = "failed to save state"
    /\ filesAtStart[StoreFile].exists
    /\ Len(allRepos) > 0
    /\ files[StoreFile] = filesAtStart[StoreFile]

\* The state file the cycle found when it began is corrupted.
CorruptedAtStart ==
    /\ cyclePc # "idle"
    /\ LoadUserState(filesAtStart, StoreFile, clock).err = "StateCorruptionError"

\* C12: a cycle that finds a corrupted state file (one that does not parse, or
\* parses and fails validation) is not failed by the load, goes on from the
\* empty state of a first run on the full-fetch path, and when it returns
\* success it reports a first run and the state file is the valid baseline a
\* first run persists.
C12_CorruptedFileIsFirstRun ==
    CorruptedAtStart =>
        /\ monitorRet.err # "failed to load previous state"
        /\ "load" \in touched =>
                /\ previousState = NewUserState(Username)
                /\ fetchesTried = {"full"}
        /\ (cyclePc = "done" /\ monitorRet.err = "nil") =>
                /\ monitorRet.IsFirstRun
                /\ monitorRet.IsFullSync
                /\ LET got == LoadUserState(files, StoreFile, clock)
                       fresh == NewUserState(Username)
                   IN  /\ got.err = "nil"
                       /\ got.state =
                            UpdatedState(Username, fresh, allRepos,
                                         findRepositoryChanges(svcCfg, <<>>, allRepos),
                                         TRUE, 0, clock)

C12_Witness ==
    /\ CorruptedAtStart
    /\ cyclePc = "done"
    /\ monitorRet.err = "nil"
    /\ Len(allRepos) > 0
    /\ LoadUserState(files, StoreFile, clock).err = "nil"

\* C14: when the incremental fetch fails and FallbackOnError is set, a full
\* fetch runs in the same cycle, a failure of the cycle is then the failure
\* of the full fetch, and a success is flagged as a full sync and persists
\* what the full fetch returned; when FallbackOnError is not set, the cycle
\* fails with the wrapped incremental error and no full fetch is attempted.
C14_FallbackToFullFetch ==
    "incremental" \in fetchesTried =>
        /\ "full" \in fetchesTried => svcCfg.FallbackOnError
        /\ (cyclePc = "done" /\ monitorRet.err = "failed to fetch repositories") =>
                IF svcCfg.FallbackOnError
                THEN /\ "full" \in fetchesTried
                     /\ monitorRet.cause = "list call error"
                ELSE /\ "full" \notin fetchesTried
                     /\ monitorRet.cause =
                            "incremental fetch failed and fallback disabled"
        /\ (cyclePc = "done" /\ monitorRet.err = "nil" /\ "full" \in fetchesTried) =>
                /\ monitorRet.IsFullSync
                /\ LET got == LoadUserState(files, StoreFile, clock)
                   IN  /\ got.err = "nil"
                       /\ got.state.LastFullSyncAt = clock
                       /\ got.state.Repositories = allRepos
                       /\ ~starsMoved =>
                            allRepos = fetchAllStarredRepos(stars, 1, <<>>)

C14_Witness ==
    /\ fetchesTried = {"incremental", "full"}
    /\ cyclePc = "done"
    /\ monitorRet.err = "nil"
    /\ monitorRet.IsFullSync
    /\ Len(allRepos) > Len(previousState.Repositories)

\* C16: a cycle whose prior state holds zero repositories takes the
\* full-fetch path: it never attempts the incremental fetch.
C16_EmptyPriorStateFullFetch ==
    (cyclePc # "idle" /\ "load" \in touched /\ Len(previousState.Repositories) = 0)
        => "incremental" \notin fetchesTried

\* The prior state holds exactly two repositories, and the starred set, which
\* did not move during the cycle, is those two as they were plus the
\* repository c, starred later than both.
TwoKeptOneAdded(c) ==
    /\ Len(previousState.Repositories) = 2
    /\ ~starsMoved
    /\ c \in stars
    /\ stars \ {c} = {previousState.Repositories[i] : i \in 1..2}
    /\ Cardinality(stars) = 3
    /\ \A r \in stars \ {c} : c.StarredAt > r.StarredAt

\* C17: a successful cycle whose prior state holds {A, B} while the remote
\* list is {A, B, C}, A and B unchanged and C starred last, reports
\* NewStars = {C}, no Unstars, ReStars or Updated, and TotalChanges = 1, on
\* the incremental path as on the full one.
C17_OneAddedRepository ==
    (cyclePc = "done" /\ monitorRet.err = "nil") =>
        \A c \in stars :
            TwoKeptOneAdded(c) =>
                /\ NamesOf(monitorRet.Changes.NewStars) = {c.FullName}
                /\ Len(monitorRet.Changes.NewStars) = 1
                /\ monitorRet.Changes.Unstars = <<>>
                /\ monitorRet.Changes.ReStars = <<>>
                /\ monitorRet.Changes.Updated = <<>>
                /\ monitorRet.Changes.TotalChanges = 1

\* The cycle that has just returned is a successful full sync, the cycle
\* before it was one too, the starred set has not moved since the earlier one
\* began, and the state file it left is the one this cycle loaded.
SecondQuietFullSync ==
    /\ cyclePc = "done"
    /\ monitorRet.err = "nil"
    /\ monitorRet.IsFullSync
    /\ quietSinceFull
    /\ ~starsMoved
    /\ LoadUserState(filesAtStart, StoreFile, clock).err = "nil"

\* C18: the second of two full-sync cycles in succession, with no change of
\* the starred set in between, reports no new star, unstar, re-star or
\* update, and persists the repositories the first one persisted.
C18_SecondFullSyncQuiet ==
    SecondQuietFullSync =>
        /\ monitorRet.Changes.NewStars = <<>>
        /\ monitorRet.Changes.Unstars = <<>>
        /\ monitorRet.Changes.ReStars = <<>>
        /\ monitorRet.Changes.Updated = <<>>
        /\ monitorRet.Changes.TotalChanges = 0
        /\ LET before == LoadUserState(filesAtStart, StoreFile, clock).state
               after == LoadUserState(files, StoreFile, clock)
           IN  /\ after.err = "nil"
               /\ after.state.Repositories = before.Repositories

C18_Witness ==
    /\ SecondQuietFullSync
    /\ Len(allRepos) >= 2
    /\ fetchesTried = {"full"}
    /\ LoadUserState(files, StoreFile, clock).state.Repositories = allRepos

\* The check counter a state file holds: the check_count of its document when
\* the document parses, 0 when there is no document to read it from.
PersistedCheckCount(fs) ==
    IF fs[StoreFile].exists /\ JSONWellFormed(fs[StoreFile].data)
    THEN JSONDecode(fs[StoreFile].data).CheckCount
    ELSE 0

\* C19 as stated: the check counter of the state file never decreases, a
\* successful cycle persists the counter found in the file plus one, and a
\* failed cycle leaves it unchanged.
C19_CheckCountMonotonic ==
    cyclePc = "done" =>
        /\ PersistedCheckCount(files) >= PersistedCheckCount(filesAtStart)
        /\ monitorRet.err = "nil" =>
                PersistedCheckCount(files) = PersistedCheckCount(filesAtStart) + 1
        /\ monitorRet.err # "nil" =>
                PersistedCheckCount(files) = PersistedCheckCount(filesAtStart)

\* C19 amended: a successful cycle that loaded its state file persists the
\* counter of that file plus one, a successful cycle that found no state file
\* or a corrupted one persists 1, and a failed cycle leaves the state file,
\* and so its counter, unchanged.
C19_CheckCountOfLoadedState ==
    cyclePc = "done" =>
        LET found == LoadUserState(filesAtStart, StoreFile, clock)
        IN  /\ monitorRet.err = "nil" =>
                    /\ LoadUserState(files, StoreFile, clock).err = "nil"
                    /\ PersistedCheckCount(files) =
                            IF found.err = "nil"
                            THEN found.state.CheckCount + 1
                            ELSE 1
            /\ monitorRet.err # "nil" =>
                    /\ files[StoreFile] = filesAtStart[StoreFile]
                    /\ PersistedCheckCount(files) = PersistedCheckCount(filesAtStart)

C19_Witness ==
    /\ cyclePc = "done"
    /\ monitorRet.err = "nil"
    /\ LoadUserState(filesAtStart, StoreFile, clock).err = "nil"
    /\ PersistedCheckCount(filesAtStart) = 1
    /\ PersistedCheckCount(files) = 2
    /\ Len(allRepos) > 0

\* C13: a rate-limit or transient error of a remote call of the cycle is
\* returned by MonitorUser only after the call was made MaxRetries + 1
\* times; so a first remote call that is rate limited once does not fail the
\* cycle.
C13_RemoteErrorsRetried ==
    (/\ remotePc = "done"
     /\ surfaced.op # "none"
     /\ ~StopsRetrying(retryCfg, ServiceOperationError(surfaced.err)))
        => surfaced.calls = retryCfg.MaxRetries + 1

\* The full-sync interval of the state file has passed since its last full
\* sync.
IntervalElapsed(u, now) ==
    now > u.LastFullSyncAt + u.FullSyncInterval * MinutesPerHour

\* C15: the full fetch is chosen whenever the state file has
\* IncrementalEnabled false, or the configuration has incremental fetching
\* disabled, or the state file has no LastStarredAt, or the full-sync
\* interval has passed since LastFullSyncAt.
C15_FullFetchConditions ==
    planPc = "done" =>
        ((\/ ~planFile.IncrementalEnabled
          \/ ~planCfg.Enabled
          \/ planFile.LastStarredAt = 0
          \/ IntervalElapsed(planFile, planNow))
            => planPath = "full")

\* The errors SaveUserState returns after os.Create(tempFile) has succeeded.
ErrorsAfterCreate ==
    {"failed to encode JSON", "failed to close temp file",
     "failed to rename temp file"}

\* C23: after SaveUserState has returned, successfully or with an error
\* that came after the temporary file was created, there is no <path>.tmp
\* next to the state file.
C23_NoTempFileLeft ==
    (savePc = "idle" /\ saveRet \in {"nil"} \cup ErrorsAfterCreate)
        => ~files[TempFile(StoreFile)].exists

\* A save failed while encoding, after writing some bytes, and has returned.
C23_Witness ==
    /\ savePc = "idle"
    /\ saveRet = "failed to encode JSON"
    /\ files[StoreFile].exists
    /\ ~files[TempFile(StoreFile)].exists

C21_ConcurrentSavesSafe ==
    /\ \A p \in Savers :
          (saver[p].pc = "done" /\ saver[p].ret = "nil") => saver[p].left.err = "nil"
    /\ (\A p \in Savers : saver[p].pc = "done")
          => \E p \in Savers :
                LoadUserState(FilesSeen(dirents, inodes), StoreFile, clock)
                    = Loaded(saver[p].arg)

\* The number of entries a repository name has in the four lists together.
Occurrences(ch, name) ==
    LET all == ch.NewStars \o ch.Unstars \o ch.ReStars \o ch.Updated
    IN  Cardinality({i \in DOMAIN all : all[i].FullName = name})

\* C30: TotalChanges is the sum of the lengths of the four lists, and a
\* repository that goes to NewStars because its starred-at advanced by more
\* than the re-star threshold is in NewStars, not in ReStars, and has one
\* entry in the four lists together, so that it adds exactly 1 to
\* TotalChanges.
C30_ReStarCountedOnce ==
    dPc = "done" =>
        /\ dChanges.TotalChanges =
               Len(dChanges.NewStars) + Len(dChanges.Unstars)
                   + Len(dChanges.ReStars) + Len(dChanges.Updated)
        /\ \A i \in DOMAIN dCurrent :
              LET c == dCurrent[i]
              IN  ( /\ diffCfg.DetectReStars
                    /\ c.FullName \in NamesOf(dPrevious)
                    /\ c.StarredAt - MapLookup(dPrevious, c.FullName).StarredAt
                           > reStarThreshold )
                    => /\ c.FullName \in NamesOf(dChanges.NewStars)
                       /\ c.FullName \notin NamesOf(dChanges.ReStars)
                       /\ Occurrences(dChanges, c.FullName) = 1

\* C24: a cycle that finds a state file with FullSyncInterval 0, a full
\* sync already recorded, IncrementalEnabled true and a LastStarredAt, and
\* that runs with incremental fetching enabled in the configuration, takes
\* the incremental fetch.
C24_IntervalZeroNeverFullSync ==
    ( /\ planPc = "done"
      /\ planCfg.Enabled
      /\ planFile.FullSyncInterval = 0
      /\ planFile.LastFullSyncAt # 0
      /\ planFile.IncrementalEnabled
      /\ planFile.LastStarredAt # 0 )
        => planPath = "incremental"

\* The state the state file holds.
Persisted(fs) == JSONDecode(fs[StoreFile].data)

IncrementalFetched ==
    IF ReachedMaxPages(svcCfg, pagesProcessed)
    THEN allRepos
    ELSE allRepos \o ProcessPage(svcCfg, GetStarredRepositories(stars, cursor).Repositories,
                                 1, mostRecentStarredAt, <<>>).new

FullFetched == allRepos \o GetStarredRepositories(stars, cursor).Repositories

\* result holds every name of previous and of fetched exactly once, with the
\* fetched entry where there is one.
MergedByIdentity(previous, fetched, result) ==
    /\ NamesOf(result) = NamesOf(previous) \cup NamesOf(fetched)
    /\ \A i, j \in DOMAIN result : result[i].FullName = result[j].FullName => i = j
    /\ \A i \in DOMAIN result :
          result[i] = IF result[i].FullName \in NamesOf(fetched)
                      THEN MapLookup(fetched, result[i].FullName)
                      ELSE MapLookup(previous, result[i].FullName)

\* C26 as stated: whichever fetch the cycle made, the list it goes on with
\* is the merge by name of the previous repositories and the fetched ones.
C26_ResultIsMergeOnBothPaths ==
    [][ /\ (cyclePc = "incremental" /\ cyclePc' = "finish")
            => MergedByIdentity(previousState.Repositories, IncrementalFetched, allRepos')
        /\ (cyclePc = "full" /\ cyclePc' = "finish")
            => MergedByIdentity(previousState.Repositories, FullFetched, allRepos')
      ]_vars

\* C26 amended: after the incremental fetch the list the cycle goes on with
\* is the merge by name of the previous repositories and the fetched ones;
\* after the full fetch it is the fetched list itself.
C26_MergeOnIncrementalPathOnly ==
    [][ /\ (cyclePc = "incremental" /\ cyclePc' = "finish")
            => MergedByIdentity(previousState.Repositories, IncrementalFetched, allRepos')
        /\ (cyclePc = "full" /\ cyclePc' = "finish")
            => allRepos' = FullFetched
      ]_vars

\* An incremental fetch has added a new repository to the previous ones.
C26_Witness ==
    /\ cyclePc = "finish"
    /\ ~isFullSync
    /\ previousState.Repositories # <<>>
    /\ Len(allRepos) > Len(previousState.Repositories)
    /\ NamesOf(previousState.Repositories) \subseteq NamesOf(allRepos)

\* No repository of the page is newer than the LastStarredAt of the previous
\* state by more than the tolerance.
NoneNewerThanThreshold(cfg, prev, page) ==
    \A i \in DOMAIN page : page[i].StarredAt - prev.LastStarredAt <= cfg.TimestampTolerance

\* The step reads a page of the incremental fetch.
IncrementalPageRequested ==
    cyclePc = "incremental" /\ pagesProcessed' = pagesProcessed + 1

\* C27: the incremental fetch reads a page only while fewer than
\* MaxIncrementalPages pages have been read, and its loop is left with the
\* page that has no repository newer than the threshold plus the tolerance
\* or that is shorter than the page size; once MaxIncrementalPages pages
\* have been read the loop is left without another page being read.
C27_IncrementalPagingStops ==
    [][ /\ pagesProcessed' <= svcCfg.MaxIncrementalPages
        /\ IncrementalPageRequested =>
              LET page == GetStarredRepositories(stars, cursor).Repositories
              IN  /\ pagesProcessed < svcCfg.MaxIncrementalPages
                  /\ ( \/ NoneNewerThanThreshold(svcCfg, previousState, page)
                       \/ Len(page) < PerPage )
                        => cyclePc' = "finish"
        /\ (cyclePc = "incremental" /\ pagesProcessed >= svcCfg.MaxIncrementalPages)
              => /\ pagesProcessed' = pagesProcessed
                 /\ cyclePc' \in {"incremental", "finish"}
                 /\ cursor' = cursor
      ]_vars

\* The incremental fetch was stopped by the page limit: it read a full page
\* with a new repository and with more pages behind it, and no further page.
C27_Witness ==
    /\ cyclePc = "finish"
    /\ ~isFullSync
    /\ pagesProcessed = svcCfg.MaxIncrementalPages
    /\ cursor = pagesProcessed + 1
    /\ Len(allRepos) > Len(previousState.Repositories)

\* The incremental fetch stopped at a page without a new repository.
C27_WitnessKnownPage ==
    /\ cyclePc = "finish"
    /\ ~isFullSync
    /\ pagesProcessed = 2
    /\ cursor = 2
    /\ pagesProcessed < svcCfg.MaxIncrementalPages

\* C29: a successful cycle whose result comes from the incremental fetch
\* reports no Unstars and persists every repository of the previous state,
\* on the remote list or not; a cycle that reports an Unstar made a full
\* fetch.
C29_IncrementalReportsNoUnstars ==
    (cyclePc = "done" /\ monitorRet.err = "nil")
        => /\ ~monitorRet.IsFullSync
              => /\ monitorRet.Changes.Unstars = <<>>
                 /\ NamesOf(previousState.Repositories)
                        \subseteq NamesOf(Persisted(files).Repositories)
           /\ monitorRet.Changes.Unstars # <<>> => monitorRet.IsFullSync

\* An incremental cycle has persisted a repository that is no longer starred.
C29_Witness ==
    /\ cyclePc = "done"
    /\ monitorRet.err = "nil"
    /\ ~monitorRet.IsFullSync
    /\ monitorRet.Changes.Unstars = <<>>
    /\ \E n \in NamesOf(Persisted(files).Repositories) :
          /\ n \in NamesOf(previousState.Repositories)
          /\ \A r \in stars : r.FullName # n

\* A full fetch has reported the removal of a star.
C29_WitnessFullFetch ==
    /\ cyclePc = "done"
    /\ monitorRet.err = "nil"
    /\ monitorRet.IsFullSync
    /\ monitorRet.Changes.Unstars # <<>>

\* The repository is on the remote list of stars.
IsStarred(n) == \E r \in stars : r.FullName = n

\* The state file holds the repository.
IsPersisted(n) ==
    /\ LoadUserState(files, StoreFile, clock).err = "nil"
    /\ n \in NamesOf(Persisted(files).Repositories)

\* A successful cycle has just reported the repository in NewStars and the
\* state file holds it.
ReportedAdded(n) ==
    /\ cyclePc = "done"
    /\ monitorRet.err = "nil"
    /\ n \in NamesOf(monitorRet.Changes.NewStars)
    /\ IsPersisted(n)

IsTerminalFor(cfg, err) ==
    LET r == AsRetryable(err)
    IN  \/ ~r.IsRateLimit /\ ~r.IsTemporary
        \/ r.IsRateLimit /\ ~cfg.RetryOnRateLimit

\* The call of operation() that just returned gave a terminal error.
TerminalErrorReturned ==
    /\ retryPc = "call"
    /\ opCalls' = opCalls + 1
    /\ retryResult' # "ok"
    /\ IsTerminalFor(retryCfg, lastErr')

\* C39 as stated: the call that returns a terminal error is the last one, no
\* delay is taken after it, and ExecuteWithRetry returns that very error.
C39_TerminalErrorReturnedAsIs ==
    [][TerminalErrorReturned =>
          /\ retryPc' = "done"
          /\ delay' = delay
          /\ retryResult' = "err"]_vars

\* C39, amended: the call that returns a terminal error is the last one and no
\* delay is taken after it; ExecuteWithRetry returns that very error when the
\* attempt was not the last one the configuration allows, and the error
\* "operation failed after MaxRetries+1 attempts" wrapping it when it was.
C39_TerminalErrorEndsRetries ==
    [][TerminalErrorReturned =>
          /\ retryPc' = "done"
          /\ delay' = delay
          /\ retryResult' =
                IF attempt = retryCfg.MaxRetries THEN "exhausted" ELSE "err"]_vars

\* A rate-limit error with RetryOnRateLimit off came back from the first call
\* and was returned as it is, without a wait.
C39_Witness ==
    /\ retryPc = "done"
    /\ retryResult = "err"
    /\ opCalls = 1
    /\ delay = 0
    /\ AsRetryable(lastErr).IsRateLimit
    /\ ~retryCfg.RetryOnRateLimit
    /\ retryCfg.MaxRetries > 0

\* The same with a single attempt configured: the error comes back wrapped.
C39_WitnessLastAttempt ==
    /\ retryPc = "done"
    /\ retryResult = "exhausted"
    /\ opCalls = 1
    /\ IsTerminalFor(retryCfg, lastErr)
    /\ retryCfg.MaxRetries = 0

\* The delays calculateDelay can return for one error at one attempt: it
\* reads no clock and no random source.
DelaysOf(cfg, att, retryableErr) == {calculateDelay(cfg, att, retryableErr)}

\* InitialDelay x BackoffMultiplier^attempt, capped at MaxDelay.
CappedBackoff(cfg, att) ==
    LET d == cfg.InitialDelay * Pow(cfg.BackoffMultiplier, att)
    IN  IF d > cfg.MaxDelay THEN cfg.MaxDelay ELSE d

\* C40: while the executor waits after a transient error that is not a
\* rate-limit error, the delay lies within 75%..125% of the capped
\* exponential value and jitter makes more than one delay possible.
C40_JitteredBackoff ==
    (retryPc = "wait" /\ ~AsRetryable(lastErr).IsRateLimit) =>
        LET capped == CappedBackoff(retryCfg, attempt)
            possible == DelaysOf(retryCfg, attempt, AsRetryable(lastErr))
        IN  /\ delay \in possible
            /\ \A d \in possible : 75 * capped <= 100 * d /\ 100 * d <= 125 * capped
            /\ Cardinality(possible) > 1

\* What does hold of the delay: it is exactly the capped exponential value.
C40_DelayIsCappedBackoff ==
    (retryPc = "wait" /\ ~AsRetryable(lastErr).IsRateLimit) =>
        delay = CappedBackoff(retryCfg, attempt)

\* The context was cancelled during the incremental fetch of a cycle whose
\* configuration has FallbackOnError set, and MonitorUser has returned.
CancelledInIncremental ==
    /\ fetchPc = "done"
    /\ cancelledIn = "incremental"
    /\ fetchCfg.FallbackOnError

\* C36 as stated: after a cancellation during the incremental fetch, with
\* fallback enabled, the full fetch made no list call, MonitorUser returned
\* an error and the state file is what it was.
C36_CancelledCycleFailsUntouched ==
    CancelledInIncremental =>
        /\ listCalls.full = 0
        /\ fetchRet # "nil"
        /\ files[StoreFile] = FetchFiles[StoreFile]

\* C36, amended: after a cancellation during the incremental fetch, with
\* fallback enabled, the full fetch made no list call; and unless the
\* incremental fetch still succeeded (the cancellation came after its last
\* list call had returned a page), MonitorUser returned an error and the
\* state file is what it was.
C36_CancelledFallbackMakesNoCall ==
    CancelledInIncremental =>
        /\ listCalls.full = 0
        /\ fetchedFull =>
              /\ fetchRet = "failed to fetch repositories"
              /\ files[StoreFile] = FetchFiles[StoreFile]

\* The context was cancelled while the executor waited after a failed list
\* call of the incremental fetch; the fallback was entered and made no call.
C36_Witness ==
    /\ CancelledInIncremental
    /\ cancelAt > 0
    /\ fetchedFull
    /\ listCalls.incremental > 0
    /\ listCalls.full = 0
    /\ fetchRet = "failed to fetch repositories"

\* The cancellation came after the last list call of the incremental fetch
\* had returned: the cycle succeeded and wrote the state file.
C36_WitnessLateCancel ==
    /\ CancelledInIncremental
    /\ ~fetchedFull
    /\ fetchRet = "nil"
    /\ files[StoreFile] # FetchFiles[StoreFile]

\* C37: a cycle on the incremental path whose list calls all failed with a
\* transient error, the context not being cancelled, has made MaxRetries + 1
\* list calls in the incremental fetch and, with FallbackOnError, MaxRetries
\* + 1 more in the full fetch, none without it; MonitorUser returned the
\* fetch error.
C37_ListCallsWhenAllFail ==
    (fetchPc = "done" /\ listOutcomes = {"transient"} /\ ~ctxDone) =>
        /\ listCalls.incremental = retryCfg.MaxRetries + 1
        /\ listCalls.full = IF fetchCfg.FallbackOnError
                            THEN retryCfg.MaxRetries + 1
                            ELSE 0
        /\ fetchRet = "failed to fetch repositories"

\* With retries configured and fallback enabled, both fetches used up their
\* attempts.
C37_Witness ==
    /\ fetchPc = "done"
    /\ listOutcomes = {"transient"}
    /\ ~ctxDone
    /\ fetchCfg.FallbackOnError
    /\ retryCfg.MaxRetries > 0
    /\ listCalls.incremental + listCalls.full = 2 * (retryCfg.MaxRetries + 1)

\* The same with fallback disabled.
C37_WitnessNoFallback ==
    /\ fetchPc = "done"
    /\ listOutcomes = {"transient"}
    /\ ~ctxDone
    /\ ~fetchCfg.FallbackOnError
    /\ listCalls = [incremental |-> retryCfg.MaxRetries + 1, full |-> 0]

\* Stop holds the mutex and waits at the send on the unbuffered channel; the
\* goroutine has chosen the ticker case and waits for the mutex.
SpinnerDeadlocked ==
    /\ stopPc = "send"
    /\ spinPc = "tick"
    /\ mu = "stop"

\* Stop was called before the goroutine set running: it found running false,
\* sent nothing and returned; the goroutine is in its loop with nobody left
\* to stop it.
SpinnerLeftRunning ==
    /\ stopPc = "returned"
    /\ spinPc \in {"select", "tick", "print"}
    /\ running

\* C35 as stated: whatever the interleaving of Stop with the spinner
\* goroutine, Stop returns and the goroutine terminates.
C35_StopEndsSpinner ==
    <>(stopPc = "returned" /\ spinPc = "returned")

\* No state has Stop and the goroutine waiting for each other.
C35_NoDeadlock == ~SpinnerDeadlocked

\* Once Stop has returned the goroutine has left its loop.
C35_NoGoroutineLeft == stopPc = "returned" => spinPc = "returned"

\* The state a successful cycle has left in the state file.
PersistedState == JSONDecode(files[StoreFile].data)

CycleSucceeded == cyclePc = "done" /\ monitorRet.err = "nil"

\* The FullName of every entry of a list of repositories.
IdentitiesOf(repos) == {repos[i].FullName : i \in 1..Len(repos)}

\* C31: after a successful cycle no two persisted repositories have the same
\* FullName and the persisted TotalCount is the number of distinct FullNames,
\* whatever the user starred or unstarred between two list calls.
C31_PersistedKeyedByIdentity ==
    CycleSucceeded =>
        LET repos == PersistedState.Repositories
        IN  /\ \A i, j \in 1..Len(repos) :
                  repos[i].FullName = repos[j].FullName => i = j
            /\ PersistedState.TotalCount = Cardinality(IdentitiesOf(repos))

\* What does hold: TotalCount is the length of the persisted list.
C31_TotalCountIsLength ==
    CycleSucceeded => PersistedState.TotalCount = Len(PersistedState.Repositories)

\* The cycle saves its state, the state file it started from being readable
\* or absent: Finish succeeds.
SuccessfulSave ==
    /\ cyclePc = "finish"
    /\ monitorRet'.err = "nil"
    /\ LoadUserState(files, StoreFile, clock).err # "StateCorruptionError"

\* LastStarredAt of the state file, the zero time when there is no file.
PersistedLastStarredAt(fs) ==
    IF fs[StoreFile].exists THEN JSONDecode(fs[StoreFile].data).LastStarredAt ELSE 0

\* C32: a successful cycle whose state file was not damaged since the cycle
\* before it leaves a LastStarredAt in the state file that is not earlier
\* than the one it found there and not earlier than the StarredAt of any
\* repository it persists.
C32_LastStarredAtNeverDecreases ==
    [][SuccessfulSave =>
          LET saved == JSONDecode(files'[StoreFile].data)
          IN  /\ saved.LastStarredAt >= PersistedLastStarredAt(files)
              /\ \A i \in 1..Len(saved.Repositories) :
                    saved.LastStarredAt >= saved.Repositories[i].StarredAt]_vars

\* A second successful cycle, a full sync made after the user removed the
\* star given last: LastStarredAt is still the time of that star, later than
\* every repository persisted.
C32_Witness ==
    /\ CycleSucceeded
    /\ PersistedState.CheckCount = 2
    /\ Len(PersistedState.Repositories) > 0
    /\ PersistedState.LastStarredAt > GetMostRecentStarredAt(PersistedState)

\* A second successful cycle that moved LastStarredAt forward.
C32_WitnessAdvanced ==
    /\ CycleSucceeded
    /\ PersistedState.CheckCount = 2
    /\ PersistedLastStarredAt(filesAtStart) > 0
    /\ PersistedState.LastStarredAt > PersistedLastStarredAt(filesAtStart)

\* LastFullSyncAt of the state file, the zero time when there is no file.
PersistedLastFullSyncAt(fs) ==
    IF fs[StoreFile].exists THEN JSONDecode(fs[StoreFile].data).LastFullSyncAt ELSE 0

\* C33: a successful cycle that fetched the full list, by the schedule or by
\* fallback, persists the time of the cycle as LastFullSyncAt; a successful
\* incremental cycle persists the LastFullSyncAt it found in the state file.
C33_FullSyncStampedIncrementalNot ==
    [][SuccessfulSave =>
          LET saved == JSONDecode(files'[StoreFile].data)
          IN  IF isFullSync
              THEN saved.LastFullSyncAt = clock
              ELSE saved.LastFullSyncAt = PersistedLastFullSyncAt(files)]_vars

\* A successful incremental cycle after a full sync made earlier: the state
\* file keeps the time of that full sync.
C33_Witness ==
    /\ CycleSucceeded
    /\ ~monitorRet.IsFullSync
    /\ PersistedState.LastFullSyncAt > 0
    /\ PersistedState.LastFullSyncAt < clock
    /\ PersistedState.LastFullSyncAt = PersistedLastFullSyncAt(filesAtStart)

\* A successful full fetch reached by fallback from the incremental fetch.
C33_WitnessFallback ==
    /\ CycleSucceeded
    /\ monitorRet.IsFullSync
    /\ "incremental" \in fetchesTried
    /\ PersistedState.LastFullSyncAt = clock
    /\ PersistedLastFullSyncAt(filesAtStart) < clock

\* runMultiUserMonitor has returned.
MultiReturned == mainPc = "done" /\ Len(usernames) > 1

\* Every cycle has recorded its outcome and every username is a key of
\* exactly one of the two maps.
EachUserInOneMap ==
    /\ \A k \in Cycles : goPc[k] = "done"
    /\ \A k \in Cycles : (usernames[k] \in results) # (usernames[k] \in errors)

\* C34 as stated: when runMultiUserMonitor returns, every cycle it started has
\* finished and every requested username is in exactly one of the results
\* map and the errors map.
C34_EveryUserInExactlyOneMap == MultiReturned => EachUserInOneMap

\* What does hold: the same for a list in which no username occurs twice.
C34_DistinctUsersInExactlyOneMap ==
    (MultiReturned /\ \A i, j \in Cycles : usernames[i] = usernames[j] => i = j)
        => EachUserInOneMap

\* The cycle of one user failed and the cycle of another completed.
C34_FailureLeavesOthersRunning ==
    /\ MultiReturned
    /\ results # {}
    /\ errors # {}
    /\ results \cap errors = {}

\* C38: the state a cycle for a username compares the fetched list with is
\* the new state of that username or a state whose Username is that
\* username.
C38_PreviousStateOfSameUser ==
    cmdPc = "save" =>
        \/ cmdPrevious = NewUserState(cmdUsername)
        \/ cmdPrevious.Username = cmdUsername

\* What does hold: the same for a command run without --state-file.
C38_DefaultPathKeepsUsersApart ==
    (cmdPc = "save" /\ cmdStateFile = "") => cmdPrevious.Username = cmdUsername

====
